---- MODULE Spec2Model ----
(***************************************************************************)
(* Model of the SeaweedFS Go SDK transfer core.                            *)
(*                                                                         *)
(*   internal/policy/policy.go   SafetyPolicy, ShouldRetryUpload           *)
(*   pkg/seaweedfs/fsops.go      UploadWithOptions, UploadLarge,           *)
(*                               ListPaged, List, DeleteBatch,             *)
(*                               GetDirUsage                               *)
(*   pkg/seaweedfs (metadata)    StatBatch                                 *)
(*   pkg/seaweedfs/client.go     DownloadWithOptions, DownloadRange,       *)
(*                               DownloadResume, DownloadConcurrent        *)
(*   pkg/seaweedfs/download.go   MergeFiles                                *)
(*                                                                         *)
(* Twelve specifications share the variables below; each keeps the         *)
(* variables of the others at idle values:                                 *)
(*   Spec          one UploadLarge call, from entry to return, with the    *)
(*                 remote store, the source reader and the caller's        *)
(*                 context as the environment;                             *)
(*   LossySpec     the same call over a network that can lose the response *)
(*                 to a write the store has applied;                       *)
(*   ConstructSpec NewSeaweedFSServiceWithClient applying its options;     *)
(*   BatchSpec     one DeleteBatch call with its goroutines;               *)
(*   UsageSpec     one GetDirUsage call walking a remote tree;             *)
(*   UsageFairSpec the same call with a goroutine that keeps running;      *)
(*   MergeSpec     one MergeFiles call over local part files;              *)
(*   StatSpec      one StatBatch call with its goroutines;                 *)
(*   ClassifySpec  ShouldRetryUpload applied to every failure of a bounded *)
(*                 family of error chains;                                 *)
(*   DownloadSpec  one DownloadConcurrent call with its goroutines;        *)
(*   RangeSpec     the launch loop of DownloadConcurrent over more ranges  *)
(*                 and sizes that the ranges do not divide;                *)
(*   ListSpec      one List call against a directory or an arbitrary       *)
(*                 store.                                                  *)
(***************************************************************************)
EXTENDS Integers, Sequences, FiniteSets, TLC

VARIABLES
    policy,      \* s.policy: UploadMaxRetry, BackoffBase, BackoffMax
    size,        \* argument size: declared total size
    chunkArg,    \* argument chunkSize as passed by the caller
    largeOpt,    \* argument largeOpt: NoOpt (nil) or [MaxRetry, UseOffset]
    src,         \* the reader r: [len: bytes it can supply, end: how it ends]
    ctx,         \* the caller's context: "none", "canceled" or "deadline"
    ctxAt,       \* position of the call when the context was cancelled
    pc,          \* position of the call
    chunkSize,   \* local chunkSize after the default was applied
    MaxRetry,    \* largeOpt.MaxRetry after the clamp
    UseOffset,   \* largeOpt.UseOffset
    uploaded,    \* local uploaded
    rpos,        \* read position of r
    bufLo,       \* source position of buf[0] of the chunk held in buf
    n,           \* local n: length of the chunk held in buf
    attempt,     \* local attempt
    lastErr,     \* local lastErr
    lastStatus,  \* HTTP status of the last response (0: no response arrived)
    sleep,       \* local sleep after jitter (None outside the backoff)
    sleeps,      \* number of backoff waits entered for the current chunk
    reqs,        \* upload requests issued so far, in order
    result,      \* value returned by UploadLarge
    net,         \* the network: "reliable", or "lossy" when the response to
                 \* a write the store applied can be lost
    cerr,        \* ClassifySpec: the failure handed to ShouldRetryUpload
    cret,        \* ClassifySpec: its answer ("pending" before the call)
    \* DownloadSpec: one DownloadConcurrent call
    maxDownloadChunks,  \* s.policy.MaxDownloadChunks
    chunkCountArg,      \* argument chunkCount as passed by the caller
    progress,           \* argument progress: "nil" or "fn"
    remoteSize,         \* size of the remote file (what Stat reports)
    dctx,               \* the caller's context
    dpc,                \* position of the calling goroutine
    chunkCount,         \* local chunkCount after the clamp
    loopI,              \* loop variable i of the launch loop
    unit,               \* the launched goroutines, by range index
    mu,                 \* holder of the mutex mu (None: unlocked)
    totalDownloaded,    \* local totalDownloaded
    errs,               \* contents of the channel errs, oldest first
    files,              \* local files written: name -> source bytes held
    dreqs,              \* download requests issued so far, in order
    calls,              \* invocations of progress so far: <<done, total>>
    dresult,            \* the returned mapping (None before the return)
    \* ListSpec: one List call
    maxListPages,       \* s.policy.MaxListPages
    limit,              \* local limit: the page size
    store,              \* the filer: a directory of len entries, or any store
    lctx,               \* the caller's context
    lpc,                \* position of the call
    last,               \* local last: the cursor ("" is None)
    pageCount,          \* local pageCount
    all,                \* local all
    pages,              \* page requests issued so far with their responses
    lresult,            \* value returned by List
    \* ConstructSpec: one NewSeaweedFSServiceWithClient call
    sPolicy,            \* s.policy of the service under construction
    nOpts,              \* options applied so far
    \* BatchSpec: one DeleteBatch call
    batch,              \* arguments: [paths, concurrency, ignoreErrors]
    bpc,                \* position of the calling goroutine
    bi,                 \* number of paths the loop has dealt with
    bunit,              \* the Delete of each path: position and outcome
    sem,                \* number of tokens held in the channel sem
    results,            \* local results: path -> stored value
    bresult,            \* the returned mapping (None before the return)
    \* UsageSpec: one GetDirUsage call
    tree,               \* the remote tree and s.policy.MaxListPages
    gctx,               \* the caller's context
    gpc,                \* position of the innermost walkDirUsage
    gstack,             \* the walkDirUsage calls in progress, outermost first
    usage,              \* the shared accumulator usage
    listed,             \* the List calls made so far with their outcomes
    gerr,               \* the error being returned up the stack
    gresult,            \* value returned by GetDirUsage
    \* MergeSpec: one MergeFiles call
    merge,              \* arguments and the part files as they were at the call
    mfs,                \* the local files: name -> content (None: no such file)
    mpc,                \* position of the call
    mi,                 \* number of parts the current loop has dealt with
    mresult,            \* value returned by MergeFiles (None before the return)
    \* StatSpec: one StatBatch call
    statIn,             \* arguments: [paths, concurrency, ignoreErrors]
    sctx,               \* the caller's context
    spc,                \* position of the calling goroutine
    si,                 \* number of paths the loop has dealt with
    sunit,              \* the goroutine of each path: its position
    ssem,               \* number of tokens held in the channel sem
    sres,               \* local result: path -> stored value
    serr,               \* the first error returned to the errgroup
    sret                \* value returned by StatBatch

uvars == <<policy, size, chunkArg, largeOpt, src, ctx, ctxAt, pc, chunkSize, MaxRetry,
           UseOffset, uploaded, rpos, bufLo, n, attempt, lastErr, lastStatus,
           sleep, sleeps, reqs, result, net>>
cvars == <<cerr, cret>>
dvars == <<maxDownloadChunks, chunkCountArg, progress, remoteSize, dctx, dpc,
           chunkCount, loopI, unit, mu, totalDownloaded, errs, files, dreqs,
           calls, dresult>>
lvars == <<maxListPages, limit, store, lctx, lpc, last, pageCount, all, pages,
           lresult>>
pvars == <<sPolicy, nOpts>>
bvars == <<batch, bpc, bi, bunit, sem, results, bresult>>
gvars == <<tree, gctx, gpc, gstack, usage, listed, gerr, gresult>>
mvars == <<merge, mfs, mpc, mi, mresult>>
svars == <<statIn, sctx, spc, si, sunit, ssem, sres, serr, sret>>
nvars == <<pvars, bvars, gvars, mvars, svars>>
vars == <<uvars, cvars, dvars, lvars, nvars>>

----------------------------------------------------------------------------
(* Bounds of the model *)

MaxSize == 2          \* declared sizes and source lengths range over 0..MaxSize
MaxChunkArg == 2      \* chunkSize arguments range over 0..MaxChunkArg
MaxReqRetry == 3      \* largest requested MaxRetry
MaxPolicyRetry == 2   \* policy.UploadMaxRetry ranges over -1..MaxPolicyRetry
MaxBase == 5          \* largest policy.BackoffBase
MaxBackoff == 7       \* largest policy.BackoffMax
DurationBits == 5     \* width of time.Duration in the model (int64 in Go)

(* Program constants *)

DefaultChunkSize == 10485760   \* 10 << 20
DefaultMaxRetry == 3

Min(a, b) == IF a <= b THEN a ELSE b
Max(a, b) == IF a >= b THEN a ELSE b

----------------------------------------------------------------------------
(* Errors.  An error value is the chain errors.Is / errors.As walk: the    *)
(* outermost error first, each layer wrapping the next.  nil is the empty  *)
(* chain.                                                                  *)

Nil == <<>>

Layer(k, c) == [k |-> k, code |-> c]

Canceled == Layer("canceled", 0)      \* context.Canceled
Deadline == Layer("deadline", 0)      \* context.DeadlineExceeded
NetLayer == Layer("net", 0)           \* a net.Error (net.OpError, url.Error)
TimeoutLayer == Layer("timeout", 0)   \* http.Client.Timeout: net.Error that Is DeadlineExceeded
Plain == Layer("plain", 0)            \* fmt.Errorf / errors.New
StatusLayer(c) == Layer("status", c)  \* an error with a StatusCode() method

ErrorsIsCanceled(err) == \E i \in 1..Len(err) : err[i].k = "canceled"

ErrorsIsDeadline(err) == \E i \in 1..Len(err) : err[i].k \in {"deadline", "timeout"}

\* errors.As(err, &se): the first layer of the chain that has StatusCode()
HasStatus(err) == \E i \in 1..Len(err) : err[i].k = "status"

FirstStatus(err) ==
    LET i == CHOOSE j \in 1..Len(err) :
                 /\ err[j].k = "status"
                 /\ \A h \in 1..(j - 1) : err[h].k # "status"
    IN err[i].code

\* errors.As(err, &netErr)
ErrorsAsNet(err) == \E i \in 1..Len(err) : err[i].k \in {"net", "timeout", "deadline"}

\* ShouldRetryUpload with every 4xx status terminal (408 and 429 included)
ShouldRetryUpload_MutAll4xx(err) ==
    IF err = Nil THEN FALSE
    ELSE IF ErrorsIsCanceled(err) \/ ErrorsIsDeadline(err) THEN FALSE
    ELSE IF /\ HasStatus(err)
            /\ FirstStatus(err) >= 400
            /\ FirstStatus(err) < 500
         THEN FALSE
    ELSE TRUE

ShouldRetryUpload(err) ==
    IF err = Nil THEN FALSE
    ELSE IF ErrorsIsCanceled(err) \/ ErrorsIsDeadline(err) THEN FALSE
    ELSE IF /\ HasStatus(err)
            /\ FirstStatus(err) >= 400
            /\ FirstStatus(err) < 500
         THEN FirstStatus(err) = 408 \/ FirstStatus(err) = 429
    ELSE IF ErrorsAsNet(err) THEN TRUE
    ELSE TRUE

----------------------------------------------------------------------------
(* ClassifySpec: ShouldRetryUpload over a bounded family of failures *)

StatusCodes == {399, 400, 404, 408, 429, 499, 500, 503}

Layers == {Canceled, Deadline, NetLayer, TimeoutLayer, Plain}
              \cup {StatusLayer(c) : c \in StatusCodes}

MaxWrap == 2   \* longest error chain

Failures == UNION {[1..l -> Layers] : l \in 0..MaxWrap}

Classify ==
    /\ cret = "pending"
    /\ cret' = IF ShouldRetryUpload(cerr) THEN "retry" ELSE "stop"
    /\ UNCHANGED <<cerr, uvars, dvars, lvars, nvars>>


CInit ==
    /\ cerr \in Failures
    /\ cret = "pending"

----------------------------------------------------------------------------
(* UploadWithOptions: what one chunk upload returns for each thing the     *)
(* transport can do with the request.  The method and URL are taken to be  *)
(* well formed, so http.NewRequestWithContext does not fail.               *)

RespStatuses == {200, 404, 408, 500}

CtxErr(c) == IF c = "canceled" THEN Canceled ELSE Deadline   \* ctx.Err()

\* the outcomes s.client.Do can have while the context is in state c
Outcomes(c) ==
    {[kind |-> "resp", status |-> st] : st \in RespStatuses}
        \cup {[kind |-> "neterr", status |-> 0], [kind |-> "timeout", status |-> 0]}
        \cup (IF c = "none" THEN {} ELSE {[kind |-> "ctxerr", status |-> 0]})

UploadWithOptions(o, c) ==
    IF o.kind = "resp"
    THEN IF o.status >= 400 THEN <<Plain>> ELSE Nil
    ELSE IF o.kind = "neterr" THEN <<NetLayer>>            \* *url.Error
    ELSE IF o.kind = "timeout" THEN <<NetLayer, TimeoutLayer>>
    ELSE <<NetLayer, CtxErr(c)>>                           \* *url.Error wrapping ctx.Err()

----------------------------------------------------------------------------
(* Backoff arithmetic.  time.Duration is a signed integer of DurationBits  *)
(* bits (64 in Go); products and shifts wrap.                              *)

Wrap(x) ==
    LET m == 2 ^ DurationBits
        r == x % m
    IN IF r >= m \div 2 THEN r - m ELSE r

\* s.policy.BackoffBase * (1 << attempt), then the clamp to BackoffMax
BackoffDelay(p, k) ==
    LET raw == Wrap(p.BackoffBase * Wrap(2 ^ k))
    IN IF raw > p.BackoffMax THEN p.BackoffMax ELSE raw

\* time.Duration(float64(sleep) * (0.5 + rand.Float64()/2)): every value the
\* factor can give, truncated toward zero
Jitter(s) ==
    IF s >= 0 THEN (s \div 2)..s ELSE s..(0 - ((0 - s) \div 2))

----------------------------------------------------------------------------
(* UploadLarge *)

NoOpt == [nil |-> TRUE, MaxRetry |-> 0, UseOffset |-> FALSE]
\* an optional value is the empty set or the singleton of the value
None == {}
Some(x) == {x}

NoResult == [kind |-> "none", err |-> Nil, offset |-> None, retries |-> None]

Return(kind, err, off, retries) ==
    /\ pc' = "done"
    /\ result' = [kind |-> kind, err |-> err, offset |-> off, retries |-> retries]

\* BackoffBase and BackoffMax of the policies: the clamp is reached late,
\* at once, and after one doubling
Backoffs == {<<1, MaxBackoff>>, <<MaxBase, MaxBase>>, <<MaxBase, MaxBackoff>>}

Policies ==
    {[UploadMaxRetry |-> r, BackoffBase |-> b[1], BackoffMax |-> b[2]] :
        r \in -1..MaxPolicyRetry, b \in Backoffs}

LargeOpts ==
    {NoOpt} \cup {[nil |-> FALSE, MaxRetry |-> r, UseOffset |-> u] :
                     r \in {-1, 0, 1, MaxReqRetry}, u \in BOOLEAN}

\* the reader: len bytes, then io.EOF ("eof") or another read error ("err")
Sources == {[len |-> l, end |-> e] : l \in 0..MaxSize, e \in {"eof", "err"}}

UInit ==
    /\ policy \in Policies
    /\ size \in 0..MaxSize
    /\ chunkArg \in 0..MaxChunkArg
    /\ largeOpt \in LargeOpts
    \* at most size bytes are ever read: a source holding more behaves as one
    \* holding size bytes, whose end is never reached
    /\ src \in {s \in Sources : s.len <= size /\ (s.len = size => s.end = "eof")}
    /\ ctx = "none"
    /\ ctxAt = "none"
    /\ pc = "entry"
    /\ chunkSize = 0
    /\ MaxRetry = 0
    /\ UseOffset = FALSE
    /\ uploaded = 0
    /\ rpos = 0
    /\ bufLo = 0
    /\ n = 0
    /\ attempt = 0
    /\ lastErr = Nil
    /\ lastStatus = 0
    /\ sleep = None
    /\ sleeps = 0
    /\ reqs = <<>>
    /\ result = NoResult

\* the idle values the variables of one specification keep under the other
UIdle ==
    /\ policy = [UploadMaxRetry |-> 0, BackoffBase |-> 1, BackoffMax |-> 1]
    /\ size = 0 /\ chunkArg = 0 /\ largeOpt = NoOpt
    /\ src = [len |-> 0, end |-> "eof"]
    /\ ctx = "none" /\ ctxAt = "none" /\ pc = "idle" /\ chunkSize = 0 /\ MaxRetry = 0
    /\ UseOffset = FALSE /\ uploaded = 0 /\ rpos = 0 /\ bufLo = 0 /\ n = 0
    /\ attempt = 0 /\ lastErr = Nil /\ lastStatus = 0 /\ sleep = None
    /\ sleeps = 0 /\ reqs = <<>> /\ result = NoResult /\ net = "reliable"

CIdle == cerr = Nil /\ cret = "idle"

DIdle ==
    /\ maxDownloadChunks = 1 /\ chunkCountArg = 0 /\ progress = "nil"
    /\ remoteSize = 0 /\ dctx = "none" /\ dpc = "idle" /\ chunkCount = 0
    /\ loopI = 0 /\ unit = <<>> /\ mu = None /\ totalDownloaded = 0
    /\ errs = <<>> /\ files = <<>> /\ dreqs = <<>> /\ calls = <<>>
    /\ dresult = None

LNoResult == [kind |-> "none", err |-> Nil, entries |-> None]

LIdle ==
    /\ maxListPages = 1 /\ limit = 1 /\ store = [kind |-> "dir", len |-> 0]
    /\ lctx = "none" /\ lpc = "idle" /\ last = None /\ pageCount = 0
    /\ all = <<>> /\ pages = <<>> /\ lresult = LNoResult

\* DefaultSafetyPolicy, durations in milliseconds
DefaultSafetyPolicy ==
    [UploadMaxRetry |-> 3, BackoffBase |-> 200, BackoffMax |-> 5000,
     MaxDownloadChunks |-> 64, MaxListPages |-> 1000]

PIdle == sPolicy = DefaultSafetyPolicy /\ nOpts = 0

BIdle ==
    /\ batch = [paths |-> 0, concurrency |-> 0, ignoreErrors |-> FALSE]
    /\ bpc = "idle" /\ bi = 0 /\ bunit = <<>> /\ sem = 0
    /\ results = <<>> /\ bresult = None

\* var usage DirUsage
ZeroUsage == [FileCount |-> 0, DirCount |-> 0, TotalSize |-> 0]

GNoResult == [kind |-> "none", usage |-> ZeroUsage, err |-> Nil]

GIdle ==
    /\ tree = [depth |-> 0, files |-> 0, extra |-> 0, loop |-> "none",
               faulty |-> FALSE, maxListPages |-> 1]
    /\ gctx = "none" /\ gpc = "idle" /\ gstack = <<>> /\ usage = ZeroUsage
    /\ listed = <<>> /\ gerr = Nil /\ gresult = GNoResult

MIdle ==
    /\ merge = [parts |-> <<>>, cleanup |-> FALSE, fs |-> <<>>]
    /\ mfs = <<>> /\ mpc = "idle" /\ mi = 0 /\ mresult = None

SIdle ==
    /\ statIn = [paths |-> 0, concurrency |-> 0, ignoreErrors |-> FALSE]
    /\ sctx = "none" /\ spc = "idle" /\ si = 0 /\ sunit = <<>> /\ ssem = 0
    /\ sres = <<>> /\ serr = Nil
    /\ sret = [done |-> FALSE, map |-> None, err |-> Nil]

NIdle == PIdle /\ BIdle /\ GIdle /\ MIdle /\ SIdle

\* the effective retry limit: 3 without options, clamped to the policy
\* ClampMaxRetry without the clamp to the policy
ClampMaxRetry_MutNoClamp(opt, p) ==
    IF opt.nil THEN DefaultMaxRetry ELSE opt.MaxRetry

ClampMaxRetry(opt, p) ==
    LET req == IF opt.nil THEN DefaultMaxRetry ELSE opt.MaxRetry
    IN IF req > p.UploadMaxRetry THEN p.UploadMaxRetry ELSE req

\* entry of UploadLarge up to the first loop test
Enter ==
    /\ pc = "entry"
    /\ chunkSize' = IF chunkArg <= 0 THEN DefaultChunkSize ELSE chunkArg
    /\ MaxRetry' = ClampMaxRetry(largeOpt, policy)
    /\ UseOffset' = IF largeOpt.nil THEN FALSE ELSE largeOpt.UseOffset
    /\ pc' = "chunk"
    /\ UNCHANGED <<net, policy, size, chunkArg, largeOpt, src, ctx, ctxAt, uploaded, rpos,
                   bufLo, n, attempt, lastErr, lastStatus, sleep, sleeps, reqs,
                   result, cvars, dvars, lvars, nvars>>

\* io.ReadFull(r, buf[:readSize]) with the reader at position pos: the number
\* of bytes read and the error ("nil", "eof" for io.EOF and
\* io.ErrUnexpectedEOF, "err" for any other read error)
ReadFull(s, pos, readSize) ==
    LET avail == Max(s.len - pos, 0)
        m == Min(readSize, avail)
    IN [n |-> m, err |-> IF m = readSize THEN "nil" ELSE s.end]

\* one turn of the outer loop: loop test, cancellation check, read
ChunkStep ==
    /\ pc = "chunk"
    /\ IF ~(uploaded < size)
       THEN /\ Return("ok", Nil, None, None)
            /\ UNCHANGED <<rpos, bufLo, n, attempt, lastErr, sleeps>>
       ELSE IF ctx # "none"
       THEN /\ Return("ctx", <<CtxErr(ctx)>>, None, None)
            /\ UNCHANGED <<rpos, bufLo, n, attempt, lastErr, sleeps>>
       ELSE LET readSize == IF size - uploaded < chunkSize
                            THEN size - uploaded ELSE chunkSize
                rd == ReadFull(src, rpos, readSize)
            IN /\ rpos' = rpos + rd.n
               /\ IF rd.err = "err"
                  THEN /\ Return("read", <<Plain>>, None, None)
                       /\ UNCHANGED <<bufLo, n, attempt, lastErr, sleeps>>
                  ELSE IF rd.n = 0
                  THEN /\ Return("ok", Nil, None, None)
                       /\ UNCHANGED <<bufLo, n, attempt, lastErr, sleeps>>
                  ELSE /\ bufLo' = rpos
                       /\ n' = rd.n
                       /\ attempt' = 0
                       /\ lastErr' = Nil
                       /\ sleeps' = 0
                       /\ pc' = "attempt"
                       /\ UNCHANGED result
    /\ UNCHANGED <<net, policy, size, chunkArg, largeOpt, src, ctx, ctxAt, chunkSize,
                   MaxRetry, UseOffset, uploaded, lastStatus, sleep, reqs, cvars, dvars, lvars, nvars>>

\* ChunkRequest with the append marker also set on a retry of the first chunk
ChunkRequest_MutRetryAppends ==
    [lo |-> bufLo, hi |-> bufLo + n,
     off |-> IF UseOffset THEN Some(uploaded) ELSE None,
     app |-> (~UseOffset) /\ (uploaded > 0 \/ attempt > 0),
     res |-> "pending", applied |-> FALSE]

\* the request UploadLarge builds for the chunk in buf
ChunkRequest ==
    [lo |-> bufLo, hi |-> bufLo + n,
     off |-> IF UseOffset THEN Some(uploaded) ELSE None,
     app |-> (~UseOffset) /\ uploaded > 0,
     res |-> "pending", applied |-> FALSE]

\* the attempt loop with an off-by-one test
AttemptLoopTest_MutLess(a, r) == a < r

\* for attempt := 0; attempt <= largeOpt.MaxRetry; attempt++
AttemptLoopTest(a, r) == a <= r

\* one turn of the attempt loop up to the upload call: loop test,
\* cancellation check, the request goes out
AttemptStep ==
    /\ pc = "attempt"
    /\ IF ~AttemptLoopTest(attempt, MaxRetry)
       THEN \* the loop ran out: lines 573-578
            IF lastErr # Nil
            THEN /\ Return("exhausted", <<Plain>> \o lastErr, Some(uploaded), Some(MaxRetry))
                 /\ UNCHANGED <<uploaded, reqs>>
            ELSE /\ uploaded' = uploaded + n
                 /\ pc' = "chunk"
                 /\ UNCHANGED <<result, reqs>>
       ELSE IF ctx # "none"
       THEN /\ Return("ctx", <<CtxErr(ctx)>>, None, None)
            /\ UNCHANGED <<uploaded, reqs>>
       ELSE /\ reqs' = Append(reqs, ChunkRequest)
            /\ pc' = "inflight"
            /\ UNCHANGED <<uploaded, result>>
    /\ UNCHANGED <<net, policy, size, chunkArg, largeOpt, src, ctx, ctxAt, chunkSize,
                   MaxRetry, UseOffset, rpos, bufLo, n, attempt, lastErr,
                   lastStatus, sleep, sleeps, cvars, dvars, lvars, nvars>>

\* the last request of the log gets its result; applied tells whether the
\* store carried out the write
Mark(log, r, a) == [log EXCEPT ![Len(log)].res = r, ![Len(log)].applied = a]

\* a transport failure on a lossy network stands for the lost response: the
\* store applied the write and the connection broke before the answer
\* arrived; every other failure (an error status, the client's timeout, a
\* cancelled context, a connection that never got through) left the store
\* untouched
Lost(o) == net = "lossy" /\ o.kind = "neterr"

\* the upload call returns; on a retryable failure the backoff is computed
\* and the select is entered
RequestDone ==
    /\ pc = "inflight"
    /\ \E o \in Outcomes(ctx) :
        LET err == UploadWithOptions(o, ctx)
        IN /\ lastStatus' = o.status
           /\ IF err = Nil
              THEN \* break, then lines 573-578
                   /\ reqs' = Mark(reqs, "ok", TRUE)
                   /\ lastErr' = Nil
                   /\ uploaded' = uploaded + n
                   /\ pc' = "chunk"
                   /\ UNCHANGED <<attempt, sleep, sleeps, result>>
              ELSE IF ~ShouldRetryUpload(err)
              THEN /\ reqs' = Mark(reqs, "fail", Lost(o))
                   /\ Return("noretry", <<Plain>> \o err, Some(uploaded), None)
                   /\ UNCHANGED <<attempt, lastErr, uploaded, sleep, sleeps>>
              ELSE /\ reqs' = Mark(reqs, "fail", Lost(o))
                   /\ lastErr' = err
                   /\ sleeps' = sleeps + 1
                   /\ \E d \in Jitter(BackoffDelay(policy, attempt)) :
                        /\ sleep' = Some(d)
                        /\ \/ \* ctx.Done() is ready
                              /\ ctx # "none"
                              /\ Return("ctx", <<CtxErr(ctx)>>, None, None)
                              /\ UNCHANGED attempt
                           \/ \* the timer is already due
                              /\ d <= 0
                              /\ attempt' = attempt + 1
                              /\ pc' = "attempt"
                              /\ UNCHANGED result
                           \/ \* neither is ready: the call blocks
                              /\ ctx = "none"
                              /\ d > 0
                              /\ pc' = "sleep"
                              /\ UNCHANGED <<attempt, result>>
                   /\ UNCHANGED uploaded
    /\ UNCHANGED <<net, policy, size, chunkArg, largeOpt, src, ctx, ctxAt, chunkSize,
                   MaxRetry, UseOffset, rpos, bufLo, n, cvars, dvars, lvars, nvars>>

\* <-time.After(sleep) while the call is blocked in the select
TimerFires ==
    /\ pc = "sleep"
    /\ attempt' = attempt + 1
    /\ sleep' = None
    /\ pc' = "attempt"
    /\ UNCHANGED <<net, policy, size, chunkArg, largeOpt, src, ctx, ctxAt, chunkSize,
                   MaxRetry, UseOffset, uploaded, rpos, bufLo, n, lastErr,
                   lastStatus, sleeps, reqs, result, cvars, dvars, lvars, nvars>>

\* the caller cancels the context (or its deadline passes); a call blocked in
\* the backoff select is woken by ctx.Done() and returns
Cancel ==
    /\ ctx = "none"
    /\ pc \in {"chunk", "attempt", "inflight", "sleep"}
    /\ \E c \in {"canceled", "deadline"} :
        /\ ctx' = c
        /\ ctxAt' = pc
        /\ IF pc = "sleep"
           THEN Return("ctx", <<CtxErr(c)>>, None, None)
           ELSE UNCHANGED <<pc, result>>
    /\ UNCHANGED <<net, policy, size, chunkArg, largeOpt, src, chunkSize, MaxRetry,
                   UseOffset, uploaded, rpos, bufLo, n, attempt, lastErr,
                   lastStatus, sleep, sleeps, reqs, cvars, dvars, lvars, nvars>>

Init == UInit /\ net = "reliable" /\ CIdle /\ DIdle /\ LIdle /\ NIdle

Next ==
    \/ Enter
    \/ ChunkStep
    \/ AttemptStep
    \/ RequestDone
    \/ TimerFires
    \/ Cancel

Spec == Init /\ [][Next]_vars

LossyInit == UInit /\ net = "lossy" /\ CIdle /\ DIdle /\ LIdle /\ NIdle

LossySpec == LossyInit /\ [][Next]_vars

ClassifyInit == CInit /\ UIdle /\ DIdle /\ LIdle /\ NIdle

ClassifyNext == Classify

ClassifySpec == ClassifyInit /\ [][ClassifyNext]_vars

----------------------------------------------------------------------------
(* DownloadConcurrent (pkg/seaweedfs/client.go).  The remote file is       *)
(* remoteSize bytes; a local file is described by the source bytes         *)
(* lo..hi it holds (hi = lo - 1: empty).  The calling goroutine runs the   *)
(* clamp, Stat, the path decision and the launch loop; every launched      *)
(* goroutine is a unit; the store, the local file system and the caller's  *)
(* context are the environment.                                            *)

MaxChunks == 2   \* policy.MaxDownloadChunks ranges over 1..MaxChunks

FiveMiB == 5242880   \* 5 << 20

\* remote sizes: tiny ones, the ones just below and at the threshold of every
\* chunk count the policy allows, and one above the threshold of the next
\* count (not a multiple of 2)
Sizes == {0, 1} \cup {k * FiveMiB + d : k \in 2..MaxChunks, d \in {-1, 0}}
             \cup {(MaxChunks + 1) * FiveMiB + 1}

Bytes(lo, hi) == [lo |-> lo, hi |-> hi]
Empty == Bytes(0, -1)
Count(b) == b.hi - b.lo + 1

DstPath == [path |-> "dst", part |-> None]       \* dstPath
\* every range writing to the destination path itself
Part_MutDst(i) == DstPath

Part(i) == [path |-> "dst", part |-> Some(i)]    \* dstPath + ".part<i>"

DownloadChunkError(file, err) == [File |-> file, Err |-> err]

\* the clamp of the requested chunk count to the policy
\* ClampChunks without the clamp
ClampChunks_MutNoClamp(count, p) == count

ClampChunks(count, p) == IF count > p THEN p ELSE count

\* the test that selects the single whole-file download
\* Sequential with a size equal to the threshold taken as too small
Sequential_MutLeq(count, sz) == count <= 1 \/ sz <= count * FiveMiB

Sequential(count, sz) == count <= 1 \/ sz < count * FiveMiB

\* the start of chunk i taken as the floor of i * sz / count
RangeStart_MutFloor(i, count, sz) == (i * sz) \div count

\* the byte range of chunk i
RangeStart(i, count, sz) == i * (sz \div count)

\* RangeEnd without the extension of the last range to the end of the file
RangeEnd_MutNoTail(i, count, sz) == RangeStart(i, count, sz) + (sz \div count) - 1

RangeEnd(i, count, sz) ==
    IF i = count - 1 THEN sz - 1
    ELSE RangeStart(i, count, sz) + (sz \div count) - 1

NoUnit == [pc |-> "none", start |-> 0, end |-> 0, status |-> 0, body |-> Empty,
           n |-> 0, err |-> Nil, cause |-> "none"]

\* DownloadRange: the argument check that precedes the request
RangeArgsOk(start, end) == ~(start < 0) /\ ~(end >= 0 /\ end < start)

\* DownloadRange: the statuses it accepts
RangeAccepts(st) == st = 206 \/ st = 200

\* the body the store sends for a range request: the range for 206, the
\* whole file for 200 (the Range header was not honoured)
RangeBody(st, start, end, sz) ==
    IF st = 206 THEN Bytes(start, Min(end, sz - 1)) ELSE Bytes(0, sz - 1)

RangeStatuses == {200, 206, 404}

\* mu.Lock() returns only while nobody holds mu
\* Lockable for a mutex that does not exclude
Lockable_MutNoExclusion(m) == TRUE

Lockable(m) == m = None

RECURSIVE SumN(_, _)
SumN(u, S) ==
    IF S = {} THEN 0
    ELSE LET j == CHOOSE x \in S : TRUE IN u[j].n + SumN(u, S \ {j})

\* for e := range errs { result[e.File] = e.Err }
\* Collect keyed by the position in the channel
Collect_MutByPosition(ch) ==
    [f \in {Part(k - 1) : k \in 1..Len(ch)} |->
        LET k == CHOOSE h \in 1..Len(ch) : Part(h - 1) = f IN ch[k].Err]

Collect(ch) ==
    [f \in {ch[k].File : k \in 1..Len(ch)} |->
        LET k == CHOOSE h \in 1..Len(ch) :
                     /\ ch[h].File = f
                     /\ \A g \in (h + 1)..Len(ch) : ch[g].File # f
        IN ch[k].Err]

\* requested chunk counts: none, one, two, and one more than any policy allows
ChunkArgs == {0, 1, 2, MaxChunks + 1}

DInit ==
    /\ maxDownloadChunks \in 1..MaxChunks
    /\ chunkCountArg \in ChunkArgs
    \* a call without progress callback differs only in that no invocation is
    \* made: it is drawn for the requests of at most two chunks
    /\ progress \in (IF chunkCountArg <= 2 THEN {"nil", "fn"} ELSE {"fn"})
    \* a request above every policy's ceiling is drawn for the largest file
    /\ remoteSize \in (IF chunkCountArg <= 2 THEN Sizes
                       ELSE {(MaxChunks + 1) * FiveMiB + 1})
    /\ dctx = "none"
    /\ dpc = "entry"
    /\ chunkCount = 0
    /\ loopI = 0
    /\ unit = <<>>
    /\ mu = None
    /\ totalDownloaded = 0
    /\ errs = <<>>
    /\ files = <<>>
    /\ dreqs = <<>>
    /\ calls = <<>>
    /\ dresult = None

DReturn(m) ==
    /\ dpc' = "done"
    /\ dresult' = Some(m)

\* the clamp at the entry of DownloadConcurrent
DEnter ==
    /\ dpc = "entry"
    /\ chunkCount' = ClampChunks(chunkCountArg, maxDownloadChunks)
    /\ dpc' = "stat"
    /\ UNCHANGED <<maxDownloadChunks, chunkCountArg, progress, remoteSize, dctx,
                   loopI, unit, mu, totalDownloaded, errs, files, dreqs, calls,
                   dresult, uvars, cvars, lvars, nvars>>

\* s.Stat and the choice between the two paths
DStat ==
    /\ dpc = "stat"
    /\ \/ /\ dctx = "none"
          /\ IF Sequential(chunkCount, remoteSize)
             THEN dpc' = "seq" /\ unit' = unit
             ELSE /\ dpc' = "launch"
                  /\ unit' = [j \in 0..(chunkCount - 1) |-> NoUnit]
          /\ dresult' = dresult
       \/ /\ DReturn(DstPath :> (IF dctx = "none" THEN <<Plain, NetLayer>>
                                 ELSE <<Plain, NetLayer, CtxErr(dctx)>>))
          /\ unit' = unit
    /\ UNCHANGED <<maxDownloadChunks, chunkCountArg, progress, remoteSize, dctx,
                   chunkCount, loopI, mu, totalDownloaded, errs, files, dreqs,
                   calls, uvars, cvars, lvars, nvars>>

\* sequential path: the context check and the request of DownloadResume(.., 0)
DSeqStart ==
    /\ dpc = "seq"
    /\ IF dctx # "none"
       THEN DReturn(DstPath :> <<CtxErr(dctx)>>) /\ dreqs' = dreqs
       ELSE /\ dpc' = "seqinflight"
            /\ dreqs' = Append(dreqs, [ranged |-> FALSE, start |-> 0, end |-> None])
            /\ dresult' = dresult
    /\ UNCHANGED <<maxDownloadChunks, chunkCountArg, progress, remoteSize, dctx,
                   chunkCount, loopI, unit, mu, totalDownloaded, errs, files,
                   calls, uvars, cvars, lvars, nvars>>

\* sequential path: DownloadWithOptions gets its answer
DSeqResponse ==
    /\ dpc = "seqinflight"
    /\ \/ /\ DReturn(DstPath :> (IF dctx = "none" THEN <<NetLayer>>
                                 ELSE <<NetLayer, CtxErr(dctx)>>))
          /\ calls' = calls
       \/ /\ dctx = "none"
          /\ \E st \in {200, 404, 500} :
                IF st >= 400
                THEN DReturn(DstPath :> <<Plain>>) /\ calls' = calls
                ELSE /\ dpc' = "seqwrite"
                     /\ dresult' = dresult
                     /\ calls' = IF progress = "nil" THEN calls
                                 ELSE Append(calls, [done |-> -1, total |-> -1,
                                                     copied |-> 0, active |-> 0])
    /\ UNCHANGED <<maxDownloadChunks, chunkCountArg, progress, remoteSize, dctx,
                   chunkCount, loopI, unit, mu, totalDownloaded, errs, files,
                   dreqs, uvars, cvars, lvars, nvars>>

\* sequential path: os.Create(dstPath) and io.Copy
DSeqWrite ==
    /\ dpc = "seqwrite"
    /\ \/ DReturn(DstPath :> <<Plain>>) /\ files' = files
       \/ /\ DReturn(DstPath :> Nil)
          /\ files' = (DstPath :> Bytes(0, remoteSize - 1)) @@ files
       \/ /\ DReturn(DstPath :> <<NetLayer>>)
          /\ files' = (DstPath :> Bytes(0, (remoteSize \div 2) - 1)) @@ files
    /\ UNCHANGED <<maxDownloadChunks, chunkCountArg, progress, remoteSize, dctx,
                   chunkCount, loopI, unit, mu, totalDownloaded, errs, dreqs,
                   calls, uvars, cvars, lvars, nvars>>

Send(file, err) == errs' = Append(errs, DownloadChunkError(file, err))

\* one iteration of the launch loop
DLaunch ==
    /\ dpc = "launch"
    /\ loopI < chunkCount
    /\ IF dctx # "none"
       THEN /\ Send(Part(loopI), <<CtxErr(dctx)>>)
            /\ unit' = [unit EXCEPT ![loopI].pc = "skipped", ![loopI].cause = "ctx"]
       ELSE /\ errs' = errs
            /\ unit' = [unit EXCEPT
                   ![loopI].pc = "start",
                   ![loopI].start = RangeStart(loopI, chunkCount, remoteSize),
                   ![loopI].end = RangeEnd(loopI, chunkCount, remoteSize)]
    /\ loopI' = loopI + 1
    /\ dpc' = IF loopI + 1 < chunkCount THEN "launch" ELSE "wait"
    /\ UNCHANGED <<maxDownloadChunks, chunkCountArg, progress, remoteSize, dctx,
                   chunkCount, mu, totalDownloaded, files, dreqs, calls, dresult,
                   uvars, cvars, lvars, nvars>>

\* a unit that exits without sending its outcome
Exit_MutNoSend(i, cause, err) ==
    /\ errs' = errs
    /\ unit' = [unit EXCEPT ![i].pc = "done", ![i].err = err, ![i].cause = cause]

\* a unit sends its outcome on errs and exits
Exit(i, cause, err) ==
    /\ Send(Part(i), err)
    /\ unit' = [unit EXCEPT ![i].pc = "done", ![i].err = err, ![i].cause = cause]

\* a unit: the first context check and the request of DownloadRange
UStart(i) ==
    /\ unit[i].pc = "start"
    /\ IF dctx # "none"
       THEN Exit(i, "ctx", <<CtxErr(dctx)>>) /\ dreqs' = dreqs
       ELSE IF ~RangeArgsOk(unit[i].start, unit[i].end)
       THEN Exit(i, "request", <<Plain>>) /\ dreqs' = dreqs
       ELSE /\ unit' = [unit EXCEPT ![i].pc = "inflight"]
            /\ dreqs' = Append(dreqs, [ranged |-> TRUE, start |-> unit[i].start,
                                       end |-> IF unit[i].end < 0 THEN None
                                               ELSE Some(unit[i].end)])
            /\ errs' = errs
    /\ UNCHANGED <<maxDownloadChunks, chunkCountArg, progress, remoteSize, dctx,
                   dpc, chunkCount, loopI, mu, totalDownloaded, files, calls,
                   dresult, uvars, cvars, lvars, nvars>>

\* a unit: DownloadRange gets its answer
UResponse(i) ==
    /\ unit[i].pc = "inflight"
    /\ \/ Exit(i, IF dctx = "none" THEN "request" ELSE "ctx",
                  IF dctx = "none" THEN <<NetLayer>> ELSE <<NetLayer, CtxErr(dctx)>>)
       \/ /\ dctx = "none"
          /\ \E st \in RangeStatuses :
                IF RangeAccepts(st)
                THEN /\ unit' = [unit EXCEPT
                            ![i].pc = "got",
                            ![i].status = st,
                            ![i].body = RangeBody(st, unit[i].start, unit[i].end,
                                                  remoteSize)]
                     /\ errs' = errs
                ELSE Exit(i, "status", <<Plain>>)
    /\ UNCHANGED <<maxDownloadChunks, chunkCountArg, progress, remoteSize, dctx,
                   dpc, chunkCount, loopI, mu, totalDownloaded, files, dreqs,
                   calls, dresult, uvars, cvars, lvars, nvars>>

\* a unit: the second context check, os.Create(tmp) and io.Copy
UWrite(i) ==
    /\ unit[i].pc = "got"
    /\ IF dctx # "none"
       THEN Exit(i, "ctx", <<CtxErr(dctx)>>) /\ files' = files
       ELSE \/ Exit(i, "create", <<Plain>>) /\ files' = files
            \/ \E ok \in BOOLEAN :
                  LET b == unit[i].body
                      w == IF ok THEN b ELSE Bytes(b.lo, b.lo + (Count(b) \div 2) - 1)
                  IN /\ files' = (Part(i) :> w) @@ files
                     /\ unit' = [unit EXCEPT
                            ![i].pc = "copied",
                            ![i].n = Count(w),
                            ![i].err = IF ok THEN Nil ELSE <<NetLayer>>,
                            ![i].cause = IF ok THEN "none" ELSE "write"]
                     /\ errs' = errs
    /\ UNCHANGED <<maxDownloadChunks, chunkCountArg, progress, remoteSize, dctx,
                   dpc, chunkCount, loopI, mu, totalDownloaded, dreqs, calls,
                   dresult, uvars, cvars, lvars, nvars>>

Copied == {j \in DOMAIN unit : unit[j].pc \in {"copied", "incall"}
                                  \/ (unit[j].pc = "done" /\ unit[j].cause \in {"none", "write"})}

InCall == {j \in DOMAIN unit : unit[j].pc = "incall"}

\* a unit: mu.Lock(), totalDownloaded += n, entry into progress
ULock(i) ==
    /\ unit[i].pc = "copied"
    /\ Lockable(mu)
    /\ mu' = Some(i)
    /\ totalDownloaded' = totalDownloaded + unit[i].n
    /\ calls' = IF progress = "nil" THEN calls
                ELSE Append(calls, [done |-> totalDownloaded', total |-> remoteSize,
                                    copied |-> SumN(unit, Copied),
                                    active |-> Cardinality(InCall) + 1])
    /\ unit' = [unit EXCEPT ![i].pc = "incall"]
    /\ UNCHANGED <<maxDownloadChunks, chunkCountArg, progress, remoteSize, dctx,
                   dpc, chunkCount, loopI, errs, files, dreqs, dresult, uvars,
                   cvars, lvars, nvars>>

\* a unit: progress returns, mu.Unlock(), the send on errs
UUnlock(i) ==
    /\ unit[i].pc = "incall"
    /\ mu' = None
    /\ Send(Part(i), unit[i].err)
    /\ unit' = [unit EXCEPT ![i].pc = "done"]
    /\ UNCHANGED <<maxDownloadChunks, chunkCountArg, progress, remoteSize, dctx,
                   dpc, chunkCount, loopI, totalDownloaded, files, dreqs, calls,
                   dresult, uvars, cvars, lvars, nvars>>

\* wg.Wait(), close(errs) and the loop that fills the result
DCollect ==
    /\ dpc = "wait"
    /\ \A j \in DOMAIN unit : unit[j].pc \in {"done", "skipped"}
    /\ DReturn(Collect(errs))
    /\ UNCHANGED <<maxDownloadChunks, chunkCountArg, progress, remoteSize, dctx,
                   chunkCount, loopI, unit, mu, totalDownloaded, errs, files,
                   dreqs, calls, uvars, cvars, lvars, nvars>>

\* the caller cancels the context
DCancel ==
    /\ dctx = "none"
    /\ dpc \notin {"idle", "done", "entry"}
    /\ dctx' = "canceled"
    /\ UNCHANGED <<maxDownloadChunks, chunkCountArg, progress, remoteSize, dpc,
                   chunkCount, loopI, unit, mu, totalDownloaded, errs, files,
                   dreqs, calls, dresult, uvars, cvars, lvars, nvars>>

DownloadInit == DInit /\ UIdle /\ CIdle /\ LIdle /\ NIdle

DownloadNext ==
    \/ DEnter
    \/ DStat
    \/ DSeqStart
    \/ DSeqResponse
    \/ DSeqWrite
    \/ DLaunch
    \/ \E i \in DOMAIN unit : UStart(i)
    \/ \E i \in DOMAIN unit : UResponse(i)
    \/ \E i \in DOMAIN unit : UWrite(i)
    \/ \E i \in DOMAIN unit : ULock(i)
    \/ \E i \in DOMAIN unit : UUnlock(i)
    \/ DCollect
    \/ DCancel

DownloadSpec == DownloadInit /\ [][DownloadNext]_vars

MaxRangeN == 4   \* the launch loop alone: 2..MaxRangeN chunks
MaxRem == 8      \* over sizes count * 5 MiB + 0..MaxRem

\* DownloadConcurrent at the entry of its launch loop, for chunk counts and
\* sizes that take the concurrent path
RInit ==
    /\ chunkCount \in 2..MaxRangeN
    /\ chunkCountArg = chunkCount
    /\ maxDownloadChunks = chunkCount
    /\ remoteSize \in {chunkCount * FiveMiB + d : d \in 0..MaxRem}
    /\ progress = "nil"
    /\ dctx = "none"
    /\ dpc = "launch"
    /\ loopI = 0
    /\ unit = [j \in 0..(chunkCount - 1) |-> NoUnit]
    /\ mu = None
    /\ totalDownloaded = 0
    /\ errs = <<>>
    /\ files = <<>>
    /\ dreqs = <<>>
    /\ calls = <<>>
    /\ dresult = None

RangeInit == RInit /\ UIdle /\ CIdle /\ LIdle /\ NIdle

RangeNext == DLaunch

\* the launch loop run to its end with no unit taking a step
RangeSpec == RangeInit /\ [][RangeNext]_vars

----------------------------------------------------------------------------
(* List (pkg/seaweedfs/fsops.go): the paging loop over ListPaged.  Entry   *)
(* names are the positive integers in store order; a cursor is None (the   *)
(* empty string) or the name of an entry.  The filer is either a           *)
(* directory of store.len entries that answers every page request with     *)
(* the next entries after the cursor, or a store that answers anything.    *)

MaxPages == 3    \* policy.MaxListPages ranges over 1..MaxPages
MaxLimit == 2    \* page sizes range over 1..MaxLimit
MaxDir == 4      \* directories hold 0..MaxDir entries
MaxCursor == 2   \* cursors an arbitrary store answers with: 1..MaxCursor

Stores == {[kind |-> "dir", len |-> d] : d \in 0..MaxDir} \cup {[kind |-> "any", len |-> 0]}

Page(entries, lastName) == [Entries |-> entries, Last |-> lastName]

After(c) == IF c = None THEN 0 ELSE CHOOSE k \in c : TRUE

\* the answers the filer can give to a page request with cursor c and limit l
Answers(st, c, l) ==
    IF st.kind = "dir"
    THEN LET cnt == Max(0, Min(l, st.len - After(c)))
             es == [j \in 1..cnt |-> After(c) + j]
         IN IF cnt > 0 THEN {Page(es, Some(After(c) + cnt))}
            ELSE {Page(es, None), Page(es, c)}
    ELSE {Page([j \in 1..cnt |-> 0], ln) :
             cnt \in {0, l}, ln \in {None} \cup {Some(k) : k \in 1..MaxCursor}}

\* ListPaged: HasMore of the page it returns
\* HasMore without the test for a full page
HasMore_MutCursorOnly(lastName, count, l) == lastName # None

\* HasMore that never reports a further page
HasMore_MutNever(lastName, count, l) == FALSE

HasMore(lastName, count, l) == lastName # None /\ count = l

\* List: the test for a cursor that did not advance
\* Stalled with the test removed
Stalled_MutNever(pageLast, sent) == FALSE

Stalled(pageLast, sent) == pageLast = sent

\* List: the test for the page ceiling
\* PageLimitReached one page late
PageLimitReached_MutLate(count, m) == count > m

\* PageLimitReached one page early
PageLimitReached_MutEarly(count, m) == count + 1 >= m

PageLimitReached(count, m) == count >= m

\* what List returns on a failure
\* ListFailure returning the entries gathered so far
ListFailure_MutPartial(kind, err, gathered) ==
    [kind |-> kind, err |-> err, entries |-> Some(gathered)]

ListFailure(kind, err, gathered) == [kind |-> kind, err |-> err, entries |-> None]

ListSuccess(gathered) == [kind |-> "ok", err |-> Nil, entries |-> Some(gathered)]

LInit ==
    /\ maxListPages \in 1..MaxPages
    /\ limit \in 1..MaxLimit
    /\ store \in Stores
    /\ lctx = "none"
    /\ lpc = "check"
    /\ last = None
    /\ pageCount = 0
    /\ all = <<>>
    /\ pages = <<>>
    /\ lresult = LNoResult

LReturn(r) ==
    /\ lpc' = "done"
    /\ lresult' = r

\* the select on ctx.Done() at the top of the loop
LCheck ==
    /\ lpc = "check"
    /\ IF lctx # "none"
       THEN LReturn(ListFailure("ctx", <<CtxErr(lctx)>>, all))
       ELSE lpc' = "call" /\ lresult' = lresult
    /\ UNCHANGED <<maxListPages, limit, store, lctx, last, pageCount, all, pages,
                   uvars, cvars, dvars, nvars>>

\* ListPaged up to s.client.Do: the request leaves unless the context is
\* already cancelled
LCall ==
    /\ lpc = "call"
    /\ IF lctx # "none"
       THEN LReturn(ListFailure("reqerr", <<NetLayer, CtxErr(lctx)>>, all)) /\ pages' = pages
       ELSE /\ lpc' = "inflight"
            /\ pages' = Append(pages, [sent |-> last, limit |-> limit,
                                       answered |-> FALSE, count |-> 0,
                                       last |-> None, hasMore |-> FALSE])
            /\ lresult' = lresult
    /\ UNCHANGED <<maxListPages, limit, store, lctx, last, pageCount, all,
                   uvars, cvars, dvars, nvars>>

\* the rest of ListPaged and of the loop body
LResponse ==
    /\ lpc = "inflight"
    /\ \/ /\ LReturn(ListFailure("reqerr",
                                 IF lctx = "none" THEN <<NetLayer>>
                                 ELSE <<NetLayer, CtxErr(lctx)>>, all))
          /\ UNCHANGED <<last, pageCount, all, pages>>
       \/ /\ LReturn(ListFailure("reqerr", <<Plain>>, all))
          /\ UNCHANGED <<last, pageCount, all, pages>>
       \/ \E pg \in Answers(store, last, limit) :
             LET more == HasMore(pg.Last, Len(pg.Entries), limit)
                 gathered == all \o pg.Entries
             IN /\ pages' = [pages EXCEPT ![Len(pages)] =
                                 [@ EXCEPT !.answered = TRUE,
                                           !.count = Len(pg.Entries),
                                           !.last = pg.Last,
                                           !.hasMore = more]]
                /\ all' = gathered
                /\ IF ~more
                   THEN /\ LReturn(ListSuccess(gathered))
                        /\ UNCHANGED <<last, pageCount>>
                   ELSE IF Stalled(pg.Last, last)
                   THEN /\ LReturn(ListFailure("stall", <<Plain>>, gathered))
                        /\ UNCHANGED <<last, pageCount>>
                   ELSE /\ last' = pg.Last
                        /\ pageCount' = pageCount + 1
                        /\ IF PageLimitReached(pageCount + 1, maxListPages)
                           THEN LReturn(ListFailure("maxpages", <<Plain>>, gathered))
                           ELSE lpc' = "check" /\ lresult' = lresult
    /\ UNCHANGED <<maxListPages, limit, store, lctx, uvars, cvars, dvars, nvars>>

\* the caller cancels the context
LCancel ==
    /\ lctx = "none"
    /\ lpc \notin {"idle", "done"}
    /\ lctx' = "canceled"
    /\ UNCHANGED <<maxListPages, limit, store, lpc, last, pageCount, all, pages,
                   lresult, uvars, cvars, dvars, nvars>>

ListInit == LInit /\ UIdle /\ CIdle /\ DIdle /\ NIdle

ListNext ==
    \/ LCheck
    \/ LCall
    \/ LResponse
    \/ LCancel

ListSpec == ListInit /\ [][ListNext]_vars

----------------------------------------------------------------------------
(* NewSeaweedFSServiceWithClient (pkg/seaweedfs/client.go): the service    *)
(* starts from DefaultSafetyPolicy and the options are applied in order.   *)
(* Durations are in milliseconds.                                          *)

MaxOpts == 2    \* a constructor call carries 0..MaxOpts options

\* argument values of the options
OptInts == {-1, 0, 1, 2}
OptDurations == {-1, 0, 100, 10000}

\* the policies a caller hands to WithSafetyPolicy
OptPolicies ==
    {[UploadMaxRetry |-> r, BackoffBase |-> b, BackoffMax |-> m,
      MaxDownloadChunks |-> c, MaxListPages |-> c] :
        r \in {-1, 3}, b \in {0, 200}, m \in {100, 5000}, c \in {0, 64}}

PInit ==
    /\ sPolicy = DefaultSafetyPolicy
    /\ nOpts = 0

\* s.policy = p
WithSafetyPolicy ==
    /\ nOpts < MaxOpts
    /\ nOpts' = nOpts + 1
    /\ \E p \in OptPolicies : sPolicy' = p
    /\ UNCHANGED <<uvars, cvars, dvars, lvars, bvars, gvars, mvars, svars>>

WithMaxDownloadChunks ==
    /\ nOpts < MaxOpts
    /\ nOpts' = nOpts + 1
    /\ \E k \in OptInts :
         sPolicy' = IF k > 0 THEN [sPolicy EXCEPT !.MaxDownloadChunks = k]
                    ELSE sPolicy
    /\ UNCHANGED <<uvars, cvars, dvars, lvars, bvars, gvars, mvars, svars>>

WithMaxListPages ==
    /\ nOpts < MaxOpts
    /\ nOpts' = nOpts + 1
    /\ \E k \in OptInts :
         sPolicy' = IF k > 0 THEN [sPolicy EXCEPT !.MaxListPages = k]
                    ELSE sPolicy
    /\ UNCHANGED <<uvars, cvars, dvars, lvars, bvars, gvars, mvars, svars>>

WithUploadMaxRetry ==
    /\ nOpts < MaxOpts
    /\ nOpts' = nOpts + 1
    /\ \E k \in OptInts :
         sPolicy' = IF k >= 0 THEN [sPolicy EXCEPT !.UploadMaxRetry = k]
                    ELSE sPolicy
    /\ UNCHANGED <<uvars, cvars, dvars, lvars, bvars, gvars, mvars, svars>>

\* base and max are taken over independently, each when positive
WithBackoff ==
    /\ nOpts < MaxOpts
    /\ nOpts' = nOpts + 1
    /\ \E base \in OptDurations, max \in OptDurations :
         LET p1 == IF base > 0 THEN [sPolicy EXCEPT !.BackoffBase = base]
                   ELSE sPolicy
         IN sPolicy' = IF max > 0 THEN [p1 EXCEPT !.BackoffMax = max] ELSE p1
    /\ UNCHANGED <<uvars, cvars, dvars, lvars, bvars, gvars, mvars, svars>>

ConstructInit == PInit /\ UIdle /\ CIdle /\ DIdle /\ LIdle /\ BIdle /\ GIdle /\ MIdle /\ SIdle

ConstructNext ==
    \/ WithSafetyPolicy
    \/ WithMaxDownloadChunks
    \/ WithMaxListPages
    \/ WithUploadMaxRetry
    \/ WithBackoff

ConstructSpec == ConstructInit /\ [][ConstructNext]_vars

----------------------------------------------------------------------------
(* DeleteBatch (pkg/seaweedfs/fsops.go).  The paths are 1..batch.paths,    *)
(* all distinct.  A Delete ends with nil or with an error that names its   *)
(* path.                                                                   *)

MaxPaths == 3   \* a batch holds 0..MaxPaths paths
MaxConc == 3    \* argument concurrency ranges over 0..MaxConc

\* the error a failed Delete of path p returns
DeleteFailed(p) == <<[k |-> "plain", code |-> p]>>

\* what the Delete of path p can return
DeleteOutcomes(p) == {Nil, DeleteFailed(p)}

\* the value stored for a path
Stored(err, ignoreErrors) == IF ignoreErrors THEN Nil ELSE err

\* results[path] = v
Put(m, path, v) == [q \in DOMAIN m \cup {path} |-> IF q = path THEN v ELSE m[q]]

\* wg.Wait() returning without waiting
WgZero_MutNoWait(units) == TRUE

\* the WaitGroup counter is zero: every goroutine launched has called Done
WgZero(units) == \A q \in DOMAIN units : units[q].pc \in {"idle", "done"}

BInit ==
    /\ batch \in [paths : 0..MaxPaths, concurrency : 0..MaxConc,
                  ignoreErrors : BOOLEAN]
    /\ bpc = "enter"
    /\ bi = 0
    /\ bunit = [q \in 1..batch.paths |-> [pc |-> "idle", err |-> None]]
    /\ sem = 0
    /\ results = <<>>
    /\ bresult = None

\* if concurrency <= 1: the sequential loop, otherwise the launch loop
BEnter ==
    /\ bpc = "enter"
    /\ bpc' = IF batch.concurrency <= 1 THEN "seq" ELSE "launch"
    /\ UNCHANGED <<batch, bi, bunit, sem, results, bresult,
                   uvars, cvars, dvars, lvars, pvars, gvars, mvars, svars>>

\* one turn of the sequential loop, or its return
BSeq ==
    /\ bpc = "seq"
    /\ IF bi < batch.paths
       THEN \E err \in DeleteOutcomes(bi + 1) :
              /\ bunit' = [bunit EXCEPT ![bi + 1] = [pc |-> "done", err |-> Some(err)]]
              /\ results' = Put(results, bi + 1, Stored(err, batch.ignoreErrors))
              /\ bi' = bi + 1
              /\ UNCHANGED <<bpc, bresult>>
       ELSE /\ bpc' = "done"
            /\ bresult' = Some(results)
            /\ UNCHANGED <<bi, bunit, results>>
    /\ UNCHANGED <<batch, sem, uvars, cvars, dvars, lvars, pvars, gvars, mvars, svars>>

\* wg.Add(1); sem <- struct{}{}; go func(path)
BLaunch ==
    /\ bpc = "launch"
    /\ bi < batch.paths
    /\ sem < batch.concurrency
    /\ sem' = sem + 1
    /\ bunit' = [bunit EXCEPT ![bi + 1].pc = "run"]
    /\ bi' = bi + 1
    /\ UNCHANGED <<batch, bpc, results, bresult,
                   uvars, cvars, dvars, lvars, pvars, gvars, mvars, svars>>

\* s.Delete(ctx, path, extra) returns in the goroutine of path q
BDelete ==
    /\ \E q \in DOMAIN bunit :
        /\ bunit[q].pc = "run"
        /\ \E err \in DeleteOutcomes(q) :
             bunit' = [bunit EXCEPT ![q] = [pc |-> "got", err |-> Some(err)]]
    /\ UNCHANGED <<batch, bpc, bi, sem, results, bresult,
                   uvars, cvars, dvars, lvars, pvars, gvars, mvars, svars>>

\* mu.Lock(); results[path] = err; mu.Unlock()
BStore ==
    /\ \E q \in DOMAIN bunit :
        /\ bunit[q].pc = "got"
        /\ results' = Put(results, q,
                          Stored(CHOOSE e \in bunit[q].err : TRUE, batch.ignoreErrors))
        /\ bunit' = [bunit EXCEPT ![q].pc = "stored"]
    /\ UNCHANGED <<batch, bpc, bi, sem, bresult,
                   uvars, cvars, dvars, lvars, pvars, gvars, mvars, svars>>

\* the deferred <-sem
BRelease ==
    /\ \E q \in DOMAIN bunit :
        /\ bunit[q].pc = "stored"
        /\ bunit' = [bunit EXCEPT ![q].pc = "released"]
    /\ sem' = sem - 1
    /\ UNCHANGED <<batch, bpc, bi, results, bresult,
                   uvars, cvars, dvars, lvars, pvars, gvars, mvars, svars>>

\* the deferred wg.Done()
BExit ==
    /\ \E q \in DOMAIN bunit :
        /\ bunit[q].pc = "released"
        /\ bunit' = [bunit EXCEPT ![q].pc = "done"]
    /\ UNCHANGED <<batch, bpc, bi, sem, results, bresult,
                   uvars, cvars, dvars, lvars, pvars, gvars, mvars, svars>>

\* the loop is over; wg.Wait() returns and results is handed back
BWait ==
    /\ bpc = "launch"
    /\ bi = batch.paths
    /\ WgZero(bunit)
    /\ bpc' = "done"
    /\ bresult' = Some(results)
    /\ UNCHANGED <<batch, bi, bunit, sem, results,
                   uvars, cvars, dvars, lvars, pvars, gvars, mvars, svars>>

BatchInit == BInit /\ UIdle /\ CIdle /\ DIdle /\ LIdle /\ PIdle /\ GIdle /\ MIdle /\ SIdle

BatchNext ==
    \/ BEnter
    \/ BSeq
    \/ BLaunch
    \/ BDelete
    \/ BStore
    \/ BRelease
    \/ BExit
    \/ BWait

BatchSpec == BatchInit /\ [][BatchNext]_vars

----------------------------------------------------------------------------
(* GetDirUsage and walkDirUsage (pkg/seaweedfs/fsops.go).  A directory is  *)
(* the sequence of names below the root.  The remote tree is a chain of    *)
(* tree.depth directories "c"; every directory of the chain holds          *)
(* tree.files files (of sizes 1, 2, ...) and tree.extra empty directories  *)
(* "e".  tree.loop makes the store inconsistent: the deepest directory     *)
(* lists "." ("self") or ".." ("parent"), or every directory lists one     *)
(* more child ("grow").  With tree.faulty a List call may also fail in     *)
(* transport or on a stalled cursor.                                       *)

MaxDepth == 2   \* the chain is 0..MaxDepth directories deep
MaxFiles == 2   \* a directory holds 0..MaxFiles files
MaxStack == 4   \* cap on the walkDirUsage calls in progress

\* limit := 100 in List, scaled to the page sizes of the model
DirLimit == MaxLimit

Trees ==
    [depth : 0..MaxDepth, files : 0..MaxFiles, extra : {0, 1},
     loop : {"none", "self", "parent", "grow"}, faulty : BOOLEAN,
     maxListPages : 1..MaxPages]

FileEntry(j) == [Name |-> "f", IsDir |-> FALSE, Size |-> j]

DirEntry(nm) == [Name |-> nm, IsDir |-> TRUE, Size |-> 1]

\* the entries the store holds for directory dir, in listing order
Entries(t, dir) ==
    IF dir # <<>> /\ dir[Len(dir)] = "e" THEN <<>>
    ELSE [j \in 1..t.files |-> FileEntry(j)]
         \o (IF Len(dir) < t.depth \/ t.loop = "grow" THEN <<DirEntry("c")>> ELSE <<>>)
         \o (IF t.extra = 1 THEN <<DirEntry("e")>> ELSE <<>>)
         \o (IF t.loop = "self" /\ Len(dir) = t.depth THEN <<DirEntry(".")>> ELSE <<>>)
         \o (IF t.loop = "parent" /\ Len(dir) = t.depth THEN <<DirEntry("..")>> ELSE <<>>)

\* path.Join(dir, name)
PathJoin(dir, nm) ==
    IF nm = "." THEN dir
    ELSE IF nm = ".." THEN (IF dir = <<>> THEN dir ELSE SubSeq(dir, 1, Len(dir) - 1))
    ELSE Append(dir, nm)

\* List over a directory of len entries whose pages arrive in order: the
\* loop from cursor position c with count pages taken so far
RECURSIVE Paging(_, _, _, _)
Paging(len, c, count, m) ==
    LET cnt == Max(0, Min(DirLimit, len - c))
        lastName == IF cnt > 0 THEN Some(c + cnt) ELSE None
    IN IF ~HasMore(lastName, cnt, DirLimit) THEN "ok"
       ELSE IF PageLimitReached(count + 1, m) THEN "maxpages"
       ELSE Paging(len, c + cnt, count + 1, m)

\* the ways s.List(ctx, dir, "", "", nil) can end
ListOutcomes(t, dir, c) ==
    IF c # "none" THEN {"ctx"}
    ELSE {Paging(Len(Entries(t, dir)), 0, 0, t.maxListPages)}
         \cup (IF t.faulty THEN {"reqerr", "stall"} ELSE {})

\* the error List returns with an outcome
ListError(o, c) ==
    IF o = "ctx" THEN <<CtxErr(c)>>
    ELSE IF o = "reqerr" THEN <<NetLayer>>
    ELSE <<Plain>>

\* the accumulation with the size of a directory entry added as well
Account_MutDirSize(u, e) ==
    IF e.IsDir
    THEN [u EXCEPT !.DirCount = @ + 1, !.TotalSize = @ + e.Size]
    ELSE [u EXCEPT !.FileCount = @ + 1, !.TotalSize = @ + e.Size]

\* the accumulation for one entry
Account(u, e) ==
    IF e.IsDir
    THEN [u EXCEPT !.DirCount = @ + 1]
    ELSE [u EXCEPT !.FileCount = @ + 1, !.TotalSize = @ + e.Size]

\* GetDirUsage handing back the counts gathered before the failure
OnFailure_MutPartial(u) == u

\* return DirUsage{}, err
OnFailure(u) == ZeroUsage

Frame(dir) == [dir |-> dir, idx |-> 0]

GInit ==
    /\ tree \in Trees
    /\ gctx = "none"
    /\ gpc = "enter"
    /\ gstack = <<Frame(<<>>)>>
    /\ usage = ZeroUsage
    /\ listed = <<>>
    /\ gerr = Nil
    /\ gresult = GNoResult

\* the select on ctx.Done() at the top of walkDirUsage
GCheck ==
    /\ gpc = "enter"
    /\ IF gctx # "none"
       THEN gerr' = <<CtxErr(gctx)>> /\ gpc' = "unwind"
       ELSE gerr' = gerr /\ gpc' = "list"
    /\ UNCHANGED <<tree, gctx, gstack, usage, listed, gresult,
                   uvars, cvars, dvars, lvars, pvars, bvars, mvars, svars>>

\* entries, err := s.List(ctx, dir, "", "", nil)
GList ==
    /\ gpc = "list"
    /\ \E o \in ListOutcomes(tree, gstack[Len(gstack)].dir, gctx) :
        /\ listed' = Append(listed, [dir |-> gstack[Len(gstack)].dir, res |-> o])
        /\ IF o = "ok"
           THEN gpc' = "iter" /\ gerr' = gerr
           ELSE gpc' = "unwind" /\ gerr' = ListError(o, gctx)
    /\ UNCHANGED <<tree, gctx, gstack, usage, gresult,
                   uvars, cvars, dvars, lvars, pvars, bvars, mvars, svars>>

\* one turn of the loop over entries, or the return of nil
GIter ==
    /\ gpc = "iter"
    /\ LET top == gstack[Len(gstack)]
           es == Entries(tree, top.dir)
       IN IF top.idx < Len(es)
          THEN LET e == es[top.idx + 1]
                   here == [gstack EXCEPT ![Len(gstack)].idx = top.idx + 1]
               IN /\ usage' = Account(usage, e)
                  /\ IF e.IsDir
                     THEN /\ Len(gstack) < MaxStack
                          /\ gstack' = Append(here, Frame(PathJoin(top.dir, e.Name)))
                          /\ gpc' = "enter"
                     ELSE /\ gstack' = here
                          /\ gpc' = gpc
                  /\ UNCHANGED gresult
          ELSE /\ gstack' = SubSeq(gstack, 1, Len(gstack) - 1)
               /\ usage' = usage
               /\ IF Len(gstack) = 1
                  THEN /\ gpc' = "done"
                       /\ gresult' = [kind |-> "ok", usage |-> usage, err |-> Nil]
                  ELSE /\ gpc' = gpc
                       /\ UNCHANGED gresult
    /\ UNCHANGED <<tree, gctx, listed, gerr,
                   uvars, cvars, dvars, lvars, pvars, bvars, mvars, svars>>

\* a walkDirUsage call returns the error to its caller; GetDirUsage returns
GUnwind ==
    /\ gpc = "unwind"
    /\ gstack' = SubSeq(gstack, 1, Len(gstack) - 1)
    /\ IF Len(gstack) = 1
       THEN /\ gpc' = "done"
            /\ gresult' = [kind |-> "fail", usage |-> OnFailure(usage), err |-> gerr]
       ELSE /\ gpc' = gpc
            /\ UNCHANGED gresult
    /\ UNCHANGED <<tree, gctx, usage, listed, gerr,
                   uvars, cvars, dvars, lvars, pvars, bvars, mvars, svars>>

\* the caller cancels the context
GCancel ==
    /\ gctx = "none"
    /\ gpc \notin {"idle", "done"}
    /\ gctx' = "canceled"
    /\ UNCHANGED <<tree, gpc, gstack, usage, listed, gerr, gresult,
                   uvars, cvars, dvars, lvars, pvars, bvars, mvars, svars>>

UsageInit == GInit /\ UIdle /\ CIdle /\ DIdle /\ LIdle /\ PIdle /\ BIdle /\ MIdle /\ SIdle

UsageNext ==
    \/ GCheck
    \/ GList
    \/ GIter
    \/ GUnwind
    \/ GCancel

UsageSpec == UsageInit /\ [][UsageNext]_vars

\* the calling goroutine keeps running until GetDirUsage returns
UsageFairSpec == UsageSpec /\ WF_vars(UsageNext)

----------------------------------------------------------------------------
(* MergeFiles (pkg/seaweedfs/download.go): the output file is created and  *)
(* the parts are copied into it in order; with cleanup the parts are then  *)
(* removed.  The local files are the output path and the part files        *)
(* 1..MaxParts; a file is None (it does not exist) or Some(content), and   *)
(* the bytes of part file k are the pairs <<k, 1>>, <<k, 2>>, ...  The     *)
(* output path is not one of the parts.                                    *)

MaxParts == 2     \* part files on disk, and the longest parts argument
MaxPartLen == 2   \* part files hold 0..MaxPartLen bytes

Content(k, len) == [j \in 1..len |-> <<k, j>>]

\* the files a part path can name: none, or a file of 0..MaxPartLen bytes
PartFiles(k) == {None} \cup {Some(Content(k, len)) : len \in 0..MaxPartLen}

\* what is at the output path before the call: nothing, or an older file
OldOutputs == {None, Some(<<<<0, 1>>>>)}

\* the parts arguments: any sequence of at most MaxParts part paths
PartLists == UNION {[1..len -> 1..MaxParts] : len \in 0..MaxParts}

Data(f) == CHOOSE c \in f : TRUE

\* io.Copy(out, in) that replaces what the output holds
IoCopy_MutOverwrite(dst, content, k) == SubSeq(content, 1, k)

\* io.Copy(out, in) that wrote the first k bytes of in: out is written at
\* its end
IoCopy(dst, content, k) == dst \o SubSeq(content, 1, k)

MInit ==
    /\ \E ps \in PartLists, cl \in BOOLEAN, o \in OldOutputs :
        \E pf \in [1..MaxParts -> UNION {PartFiles(k) : k \in 1..MaxParts}] :
            /\ \A k \in 1..MaxParts : pf[k] \in PartFiles(k)
            /\ merge = [parts |-> ps, cleanup |-> cl, fs |-> [out |-> o, part |-> pf]]
    /\ mfs = merge.fs
    /\ mpc = "create"
    /\ mi = 0
    /\ mresult = None

\* out, err := os.Create(outputPath)
MCreate ==
    /\ mpc = "create"
    /\ \/ /\ mpc' = "done"
          /\ mresult' = Some(<<Plain>>)
          /\ mfs' = mfs
       \/ /\ mpc' = "copy"
          /\ mresult' = mresult
          /\ mfs' = [mfs EXCEPT !.out = Some(<<>>)]
    /\ UNCHANGED <<merge, mi, uvars, cvars, dvars, lvars, pvars, bvars, gvars, svars>>

\* one turn of the loop that copies the parts, or its end
MCopy ==
    /\ mpc = "copy"
    /\ IF mi < Len(merge.parts)
       THEN LET f == mfs.part[merge.parts[mi + 1]]
            IN \/ \* os.Open(p) fails
                  /\ mpc' = "done"
                  /\ mresult' = Some(<<Plain>>)
                  /\ UNCHANGED <<mfs, mi>>
               \/ \* io.Copy fails after k bytes
                  /\ f # None
                  /\ \E k \in 0..Len(Data(f)) :
                        mfs' = [mfs EXCEPT !.out = Some(IoCopy(Data(mfs.out), Data(f), k))]
                  /\ mpc' = "done"
                  /\ mresult' = Some(<<Plain>>)
                  /\ mi' = mi
               \/ \* the part is copied whole
                  /\ f # None
                  /\ mfs' = [mfs EXCEPT !.out =
                                 Some(IoCopy(Data(mfs.out), Data(f), Len(Data(f))))]
                  /\ mi' = mi + 1
                  /\ UNCHANGED <<mpc, mresult>>
       ELSE /\ IF merge.cleanup
               THEN mpc' = "remove" /\ mresult' = mresult
               ELSE mpc' = "done" /\ mresult' = Some(Nil)
            /\ mi' = 0
            /\ mfs' = mfs
    /\ UNCHANGED <<merge, uvars, cvars, dvars, lvars, pvars, bvars, gvars, svars>>

\* one turn of the loop that removes the parts, or the return of nil;
\* the error of os.Remove is dropped
MRemove ==
    /\ mpc = "remove"
    /\ IF mi < Len(merge.parts)
       THEN /\ \/ mfs' = [mfs EXCEPT !.part[merge.parts[mi + 1]] = None]
               \/ mfs' = mfs
            /\ mi' = mi + 1
            /\ UNCHANGED <<mpc, mresult>>
       ELSE /\ mpc' = "done"
            /\ mresult' = Some(Nil)
            /\ UNCHANGED <<mfs, mi>>
    /\ UNCHANGED <<merge, uvars, cvars, dvars, lvars, pvars, bvars, gvars, svars>>

MergeInit == MInit /\ UIdle /\ CIdle /\ DIdle /\ LIdle /\ PIdle /\ BIdle /\ GIdle /\ SIdle

MergeNext ==
    \/ MCreate
    \/ MCopy
    \/ MRemove

MergeSpec == MergeInit /\ [][MergeNext]_vars

----------------------------------------------------------------------------
(* StatBatch: one goroutine per path under an errgroup whose context is    *)
(* derived from the caller's, with the channel sem bounding the Stat calls *)
(* in flight.  Paths are 1..statIn.paths.                                  *)

DefaultStatConcurrency == 10

\* concurrency after the default was applied
StatConcurrency(c) == IF c <= 0 THEN DefaultStatConcurrency ELSE c

\* the context of errgroup.WithContext(ctx) is done: the caller's context
\* is done, or a goroutine of the group has returned an error
GroupDone(c, first) == c # "none" \/ first # Nil

\* ctx.Err() of the group's context once it is done
GroupErr(c) == IF c # "none" THEN <<CtxErr(c)>> ELSE <<Canceled>>

\* the ways s.Stat(ctx, p, includeTags) can end while the caller's context
\* is in state c: Nil, or an error
StatOutcomes(c, first) ==
    {Nil, <<Plain>>, <<NetLayer>>}
        \cup (IF GroupDone(c, first) THEN {<<NetLayer, Canceled>>} ELSE {})

SNoResult == [done |-> FALSE, map |-> None, err |-> Nil]

SInit ==
    /\ statIn \in [paths : 0..MaxPaths, concurrency : 0..MaxConc,
                   ignoreErrors : BOOLEAN]
    /\ sctx = "none"
    /\ spc = "loop"
    /\ si = 0
    /\ sunit = [q \in 1..statIn.paths |-> [pc |-> "idle", err |-> Nil]]
    /\ ssem = 0
    /\ sres = <<>>
    /\ serr = Nil
    /\ sret = SNoResult

\* the head of the launch loop with its select on ctx.Done()
SLoop ==
    /\ spc = "loop"
    /\ IF si >= statIn.paths
       THEN spc' = "wait" /\ sret' = sret
       ELSE IF GroupDone(sctx, serr)
       THEN /\ spc' = "done"
            /\ sret' = [done |-> TRUE, map |-> None, err |-> GroupErr(sctx)]
       ELSE spc' = "acquire" /\ sret' = sret
    /\ UNCHANGED <<statIn, sctx, si, sunit, ssem, sres, serr,
                   uvars, cvars, dvars, lvars, pvars, bvars, gvars, mvars>>

\* sem <- struct{}{} and g.Go
SLaunch ==
    /\ spc = "acquire"
    /\ ssem < StatConcurrency(statIn.concurrency)
    /\ ssem' = ssem + 1
    /\ sunit' = [sunit EXCEPT ![si + 1].pc = "start"]
    /\ si' = si + 1
    /\ spc' = "loop"
    /\ UNCHANGED <<statIn, sctx, sres, serr, sret,
                   uvars, cvars, dvars, lvars, pvars, bvars, gvars, mvars>>

\* the goroutine's select on ctx.Done(): return nil when the context is done
SStart(q) ==
    /\ sunit[q].pc = "start"
    /\ IF GroupDone(sctx, serr)
       THEN /\ sunit' = [sunit EXCEPT ![q].pc = "exit"]
            /\ ssem' = ssem - 1
       ELSE /\ sunit' = [sunit EXCEPT ![q].pc = "stat"]
            /\ ssem' = ssem
    /\ UNCHANGED <<statIn, sctx, spc, si, sres, serr, sret,
                   uvars, cvars, dvars, lvars, pvars, bvars, gvars, mvars>>

\* s.Stat returns; with an error and ignoreErrors false the goroutine
\* returns it to the group, which keeps the first and cancels its context
SStat(q) ==
    /\ sunit[q].pc = "stat"
    /\ \E e \in StatOutcomes(sctx, serr) :
          IF e # Nil /\ ~statIn.ignoreErrors
          THEN /\ sunit' = [sunit EXCEPT ![q] = [pc |-> "exit", err |-> e]]
               /\ serr' = IF serr = Nil THEN e ELSE serr
               /\ ssem' = ssem - 1
          ELSE /\ sunit' = [sunit EXCEPT ![q] = [pc |-> "store", err |-> e]]
               /\ serr' = serr
               /\ ssem' = ssem
    /\ UNCHANGED <<statIn, sctx, spc, si, sres, sret,
                   uvars, cvars, dvars, lvars, pvars, bvars, gvars, mvars>>

\* under mu: result[p] = nil for a failed path, result[p] = stat otherwise
SStore(q) ==
    /\ sunit[q].pc = "store"
    /\ sres' = Put(sres, q, IF sunit[q].err # Nil THEN "nil" ELSE "stat")
    /\ sunit' = [sunit EXCEPT ![q].pc = "exit"]
    /\ ssem' = ssem - 1
    /\ UNCHANGED <<statIn, sctx, spc, si, serr, sret,
                   uvars, cvars, dvars, lvars, pvars, bvars, gvars, mvars>>

\* g.Wait() returns once every goroutine has returned
SWait ==
    /\ spc = "wait"
    /\ \A q \in DOMAIN sunit : sunit[q].pc = "exit"
    /\ spc' = "done"
    /\ sret' = IF serr # Nil
               THEN [done |-> TRUE, map |-> None, err |-> serr]
               ELSE [done |-> TRUE, map |-> Some(sres), err |-> Nil]
    /\ UNCHANGED <<statIn, sctx, si, sunit, ssem, sres, serr,
                   uvars, cvars, dvars, lvars, pvars, bvars, gvars, mvars>>

\* the caller cancels the context
SCancel ==
    /\ sctx = "none"
    /\ spc \notin {"idle", "done"}
    /\ sctx' = "canceled"
    /\ UNCHANGED <<statIn, spc, si, sunit, ssem, sres, serr, sret,
                   uvars, cvars, dvars, lvars, pvars, bvars, gvars, mvars>>

StatInit == SInit /\ UIdle /\ CIdle /\ DIdle /\ LIdle /\ PIdle /\ BIdle /\ GIdle /\ MIdle

StatNext ==
    \/ SLoop
    \/ SLaunch
    \/ \E q \in DOMAIN sunit : SStart(q)
    \/ \E q \in DOMAIN sunit : SStat(q)
    \/ \E q \in DOMAIN sunit : SStore(q)
    \/ SWait
    \/ SCancel

StatSpec == StatInit /\ [][StatNext]_vars

----------------------------------------------------------------------------
(* Properties *)

Ceil(a, b) == (a + b - 1) \div b

IsCtxErr(err) == ErrorsIsCanceled(err) \/ ErrorsIsDeadline(err)

Done == pc = "done"

\* the positions in the log of the requests that carry the chunk starting at lo
ReqsOf(lo) == {i \in 1..Len(reqs) : reqs[i].lo = lo}

SameRequest(a, b) ==
    /\ a.lo = b.lo
    /\ a.hi = b.hi
    /\ a.off = b.off
    /\ a.app = b.app

\* C1: when the source supplies size bytes and every upload request succeeds,
\* a successful UploadLarge has issued exactly ceil(size / chunkSize) requests
\* and the k-th carries the source bytes [k*chunkSize, min((k+1)*chunkSize, size)).
C1_ExactPartition ==
    ( /\ Done
      /\ result.kind = "ok"
      /\ chunkArg > 0
      /\ src.len >= size
      /\ \A i \in 1..Len(reqs) : reqs[i].res = "ok" )
    => /\ Len(reqs) = Ceil(size, chunkSize)
       /\ \A i \in 1..Len(reqs) :
            /\ reqs[i].lo = (i - 1) * chunkSize
            /\ reqs[i].hi = Min(i * chunkSize, size)

\* C2: a source that ends before size bytes makes UploadLarge fail; success
\* is never returned with fewer than size bytes uploaded.
C2_ShortSourceFails ==
    (Done /\ result.kind = "ok") =>
        /\ src.len >= size
        /\ uploaded = size

ClientError(st) == st >= 400 /\ st <= 499 /\ st # 408 /\ st # 429

\* C3: a chunk upload answered with a 4xx status other than 408 and 429 ends
\* the call at once with the chunk failure: no backoff, no further request.
C3_ClientErrorAborts ==
    [][ (pc = "inflight" /\ pc' # "inflight" /\ ClientError(lastStatus'))
            => /\ pc' = "done"
               /\ result'.kind = "noretry"
               /\ sleeps' = sleeps ]_vars

\* the status a failure carries: the one errors.As finds (0 when none)
CarriedStatus(err) == IF HasStatus(err) THEN FirstStatus(err) ELSE 0

\* C4: ShouldRetryUpload is the decision table: no failure -> false;
\* cancellation or deadline anywhere in the failure -> false; otherwise a
\* carried status in 400..499 other than 408 and 429 -> false; otherwise true.
C4_DecisionTable ==
    cret \in {"retry", "stop"} =>
        ( cret = "retry" <=>
            /\ cerr # Nil
            /\ ~IsCtxErr(cerr)
            /\ ~ClientError(CarriedStatus(cerr)) )

C4_Witness ==
    /\ cret = "stop"
    /\ cerr = <<StatusLayer(404), NetLayer>>

\* the first request of the chunk that request i carries
FirstOf(i) == CHOOSE j \in ReqsOf(reqs[i].lo) : \A h \in ReqsOf(reqs[i].lo) : j <= h

\* C5: a chunk that fails retryably k times (k <= MaxRetry) and then succeeds
\* has been sent in exactly k+1 requests with the same bytes and the same
\* offset/append marker; the next request is for the next chunk, and a run
\* whose chunks all end accepted returns success with everything uploaded.
C5_RetryThenSuccess ==
    /\ \A i \in 1..Len(reqs) :
          reqs[i].res = "ok" =>
            /\ i - FirstOf(i) <= MaxRetry
            /\ ReqsOf(reqs[i].lo) = FirstOf(i)..i
            /\ \A j \in FirstOf(i)..i :
                  /\ SameRequest(reqs[j], reqs[i])
                  /\ (j < i => reqs[j].res = "fail")
            /\ uploaded >= reqs[i].hi
            /\ (i < Len(reqs) => reqs[i + 1].lo = reqs[i].hi)
    /\ ( /\ Done
         /\ ctx = "none"
         /\ src.len >= size
         /\ reqs # <<>>
         /\ reqs[Len(reqs)].res = "ok" )
       => (result.kind = "ok" /\ uploaded = size)

C5_Witness ==
    /\ Done
    /\ result.kind = "ok"
    /\ MaxRetry = 2
    /\ Len(reqs) = 4
    /\ reqs[1].res = "fail" /\ reqs[2].res = "fail" /\ reqs[3].res = "ok"
    /\ reqs[4].lo = reqs[3].hi
    /\ reqs[4].res = "ok"

\* C6: a chunk whose attempts all fail retryably is sent exactly MaxRetry+1
\* times; the call then returns the exhaustion error with the offset of that
\* chunk and the retry count MaxRetry, and no later chunk is ever requested.
C6_RetryExhaustion ==
    /\ (Done /\ result.kind = "exhausted") =>
          /\ result.offset = Some(uploaded)
          /\ result.retries = Some(MaxRetry)
          /\ Cardinality(ReqsOf(uploaded)) = MaxRetry + 1
          /\ \A i \in 1..Len(reqs) :
                /\ reqs[i].lo <= uploaded
                /\ (reqs[i].lo = uploaded => reqs[i].res = "fail")
    /\ ( /\ Done
         /\ ctx = "none"
         /\ reqs # <<>>
         /\ reqs[Len(reqs)].res = "fail"
         /\ result.kind # "noretry" )
       => result.kind = "exhausted"

C6_Witness ==
    /\ Done
    /\ result.kind = "exhausted"
    /\ MaxRetry = 2
    /\ uploaded > 0
    /\ Len(reqs) = 4
    /\ result.offset = Some(reqs[4].lo)

RequestedMaxRetry == IF largeOpt.nil THEN 3 ELSE largeOpt.MaxRetry

\* C7: the retry limit in use is min(requested MaxRetry, policy.UploadMaxRetry),
\* the requested value being 3 without options, and no chunk is ever sent
\* more than policy.UploadMaxRetry + 1 times.
C7_RetryClamp ==
    /\ pc # "entry" => MaxRetry = Min(RequestedMaxRetry, policy.UploadMaxRetry)
    /\ \A i \in 1..Len(reqs) :
          Cardinality(ReqsOf(reqs[i].lo)) <= policy.UploadMaxRetry + 1

C7_Witness ==
    /\ largeOpt.nil
    /\ policy.UploadMaxRetry = 2
    /\ Len(reqs) = 3
    /\ Cardinality(ReqsOf(0)) = 3
    /\ Done

\* C8: every backoff delay is min(BackoffBase * 2^k, BackoffMax) times a
\* factor in [0.5, 1.0]: never negative, never above BackoffMax and, with
\* BackoffBase <= BackoffMax, never below half of BackoffBase (rounded down).
C8_DelayBounds ==
    (policy.BackoffBase > 0 /\ policy.BackoffBase <= policy.BackoffMax)
        => \A d \in sleep :
              /\ d >= 0
              /\ d <= policy.BackoffMax
              /\ d >= policy.BackoffBase \div 2

\* C9: once cancellation was signalled during the call, the call returns an
\* error that is or wraps the cancellation failure (stated for the case
\* "during a request").
C9_CancelReturnsCtxErr ==
    (Done /\ ctxAt = "inflight") => IsCtxErr(result.err)

\* C10: every failure UploadLarge returns names the offset at which the
\* upload stopped, the total size of the chunks accepted so far.
C10_FailureReportsOffset ==
    (Done /\ result.kind # "ok") => result.offset = Some(uploaded)

----------------------------------------------------------------------------
(* Properties of DownloadConcurrent *)

DDone == dpc = "done"

\* the call took the concurrent path
Concurrent == unit # <<>>

\* the returned mapping
Mapping == CHOOSE m \in dresult : TRUE

\* r[0..N-1] partition the bytes 0..S-1 in order
Partitions(r, N, S) ==
    /\ r[0].start = 0
    /\ \A i \in 0..(N - 2) : r[i + 1].start = r[i].end + 1
    /\ r[N - 1].end = S - 1
    /\ \A i \in 0..(N - 1) : r[i].end >= r[i].start - 1
    /\ \A i, j \in 0..(N - 1) : i < j => r[i].end < r[j].start
    /\ SumN([i \in 0..(N - 1) |-> [n |-> r[i].end - r[i].start + 1]], 0..(N - 1)) = S

RangesOf(N, S) ==
    [i \in 0..(N - 1) |-> [start |-> RangeStart(i, N, S), end |-> RangeEnd(i, N, S)]]

\* C11: the ranges computed for N >= 1 chunks over S >= 0 bytes partition
\* [0, S) exactly: the first starts at 0, each next one starts right after the
\* previous end, none overlap, they cover S bytes and the last ends at S-1.
\* Stated for the ranges the launch loop has handed to the units when it ends,
\* and for the computation applied to the chunk count and size of every call
\* (once the clamp has been applied).
C11_RangesPartition ==
    /\ (dpc = "wait" /\ \A j \in DOMAIN unit : unit[j].pc # "skipped")
          => Partitions(unit, chunkCount, remoteSize)
    /\ dpc = "stat"
          => Partitions(RangesOf(Max(chunkCount, 1), remoteSize),
                        Max(chunkCount, 1), remoteSize)

C11_Witness ==
    /\ DDone /\ Concurrent
    /\ remoteSize % chunkCount # 0
    /\ \A j \in DOMAIN unit : unit[j].pc = "done" /\ unit[j].status = 206

FailCauses == {"request", "status", "create", "write"}

\* C12: the mapping returned by the concurrent path has exactly one entry per
\* range index, keyed by that range's part file; the entry of range i is an
\* error exactly when range i failed (or was cancelled); and a step of one
\* unit, its failure included, changes no sibling unit and does not cancel
\* the context.
C12_OneEntryPerRange ==
    [][/\ (dpc' = "done" /\ unit' # <<>>) =>
            LET m == CHOOSE x \in dresult' : TRUE
            IN /\ DOMAIN m = {Part(i) : i \in DOMAIN unit'}
               /\ Cardinality(DOMAIN m) = chunkCount'
               /\ \A i \in DOMAIN unit' :
                     /\ (m[Part(i)] # Nil) <=> (unit'[i].cause \in FailCauses \cup {"ctx"})
                     /\ m[Part(i)] = unit'[i].err \/ unit'[i].pc = "skipped"
                     /\ dctx' = "none" => unit'[i].cause # "ctx"
       /\ (unit # <<>> /\ unit' # unit) =>
            /\ \E i \in DOMAIN unit : \A j \in DOMAIN unit \ {i} : unit'[j] = unit[j]
            /\ dctx' = dctx
      ]_vars

C12_Witness ==
    /\ DDone /\ Concurrent /\ dctx = "none"
    /\ Mapping[Part(0)] # Nil
    /\ Mapping[Part(1)] = Nil
    /\ errs[1].File = Part(1)
    /\ unit[0].cause = "status"

\* C13: every range whose entry in the returned mapping is success left a part
\* file holding exactly the source bytes [start_i, end_i], whether the request
\* was answered with 206 or with 200.
C13_SuccessHoldsRange ==
    (DDone /\ Concurrent) =>
        \A i \in DOMAIN unit :
            Mapping[Part(i)] = Nil =>
                /\ Part(i) \in DOMAIN files
                /\ files[Part(i)] = Bytes(unit[i].start, unit[i].end)

Unranged == {k \in 1..Len(dreqs) : ~dreqs[k].ranged}

\* C14: the sequential path is taken exactly when the effective chunk count is
\* <= 1 or the size is below chunkCount x 5 MiB (a size equal to it goes
\* concurrent); the sequential path issues one un-ranged request and no
\* ranged one, writes only the destination path, and returns one entry, keyed
\* by the destination path.
C14_SequentialPath ==
    LET eff == Min(chunkCountArg, maxDownloadChunks)
        small == eff <= 1 \/ remoteSize < eff * 5242880
    IN /\ dpc \in {"seq", "seqinflight", "seqwrite"} => small
       /\ (dpc \in {"launch", "wait"} \/ Concurrent) => (~small /\ Unranged = {})
       /\ ~Concurrent =>
            /\ Len(dreqs) <= 1
            /\ Unranged = 1..Len(dreqs)
            /\ DOMAIN files \subseteq {DstPath}
            /\ dpc \in {"seqinflight", "seqwrite"} => Len(dreqs) = 1
            /\ (DDone /\ files # <<>>) => Len(dreqs) = 1
            /\ DDone => DOMAIN Mapping = {DstPath}

C14_Witness ==
    /\ DDone /\ ~Concurrent
    /\ chunkCount = 2
    /\ remoteSize = 2 * FiveMiB - 1
    /\ DstPath \in DOMAIN files
    /\ Mapping[DstPath] = Nil

InFlight == {j \in DOMAIN unit : unit[j].pc = "inflight"}

\* C15: the number of ranges of a call is min(requested, MaxDownloadChunks),
\* so never more than MaxDownloadChunks range requests are in flight (or are
\* issued at all).
C15_ChunkClamp ==
    /\ Concurrent => Cardinality(DOMAIN unit) = Min(chunkCountArg, maxDownloadChunks)
    /\ Cardinality(InFlight) <= maxDownloadChunks
    /\ Len(dreqs) - Cardinality(Unranged) <= maxDownloadChunks

C15_Witness ==
    /\ Concurrent
    /\ chunkCountArg > maxDownloadChunks
    /\ Cardinality(InFlight) = maxDownloadChunks

NonDecreasing == \A k \in 1..(Len(calls) - 1) : calls[k].done <= calls[k + 1].done

\* the units that have added their byte count to totalDownloaded
Accounted == {j \in DOMAIN unit : unit[j].pc = "incall"
                                     \/ (unit[j].pc = "done" /\ unit[j].cause \in {"none", "write"})}

\* C16 as stated: every invocation's done equals the bytes written by all
\* ranges that had finished copying when it was made.
C16_DoneIsAllCopied ==
    Concurrent => \A k \in 1..Len(calls) : calls[k].done = calls[k].copied

\* C16 (amended): in the concurrent path no two invocations of progress overlap,
\* the done values are non-decreasing, total is the source size, and each done
\* equals the bytes written by the ranges that have added their count under
\* the lock so far; a range that has finished copying but not yet taken the
\* lock is not counted.
C16_ProgressSerialized ==
    Concurrent =>
        /\ Cardinality(InCall) <= 1
        /\ \A k \in 1..Len(calls) :
              /\ calls[k].active = 1
              /\ calls[k].total = remoteSize
              /\ calls[k].done <= calls[k].copied
        /\ NonDecreasing
        /\ Len(calls) > 0 => calls[Len(calls)].done = SumN(unit, Accounted)

C16_Witness ==
    /\ Concurrent /\ Len(calls) = 2
    /\ calls[1].done > 0 /\ calls[2].done > calls[1].done
    /\ calls[1].done < calls[1].copied

----------------------------------------------------------------------------
(* Properties of List *)

LDone == lpc = "done"

Answered == {k \in 1..Len(pages) : pages[k].answered}

\* the answered pages that report has-more with the cursor that was sent
StalledPages == {k \in Answered : pages[k].hasMore /\ pages[k].last = pages[k].sent}

\* C17: a page answered with has-more and the cursor that was sent is the last
\* page request of the call, which fails right after it with the stall failure;
\* against a store whose has-more pages all carry one and the same cursor,
\* List issues at most two page requests.
C17_StallAborts ==
    /\ \A k \in StalledPages :
          /\ k = Len(pages)
          /\ LDone
          /\ lresult.kind = "stall"
          /\ lresult.err # Nil
    /\ (\A j, k \in Answered :
            (pages[j].hasMore /\ pages[k].hasMore) => pages[j].last = pages[k].last)
          => Len(pages) <= 2

C17_Witness ==
    /\ LDone
    /\ maxListPages = 3
    /\ Len(pages) = 2
    /\ StalledPages = {2}
    /\ lresult.kind = "stall"

\* C18 as stated: at most M page requests, and has-more on the M-th page
\* always ends in the max-pages failure.
C18_CeilingAlwaysMaxPages ==
    /\ Len(pages) <= maxListPages
    /\ (Len(pages) = maxListPages /\ maxListPages \in Answered
            /\ pages[maxListPages].hasMore)
          => (LDone /\ lresult.kind = "maxpages")

\* C18 (amended): List never issues more than M = MaxListPages page requests;
\* when the M-th page reports has-more, List fails after exactly M requests:
\* with the max-pages failure if that page's cursor differs from the one
\* sent, with the stall failure if it equals it.
C18_PageCeiling ==
    /\ Len(pages) <= maxListPages
    /\ (Len(pages) = maxListPages /\ maxListPages \in Answered
            /\ pages[maxListPages].hasMore)
          => /\ LDone
             /\ lresult.err # Nil
             /\ lresult.kind = IF maxListPages \in StalledPages THEN "stall"
                               ELSE "maxpages"

C18_Witness ==
    /\ LDone
    /\ maxListPages = 3
    /\ store.kind = "dir"
    /\ Len(pages) = 3
    /\ pages[3].hasMore
    /\ lresult.kind = "maxpages"

\* C19: against a directory that answers each page request with the next
\* entries after the cursor and needs fewer pages than the ceiling, a List
\* call that is neither cancelled nor hit by a request failure returns the
\* directory's entries, each once and in store order, whatever the page size.
C19_ListsDirectory ==
    (LDone /\ store.kind = "dir" /\ Ceil(store.len, limit) < maxListPages
           /\ lresult.kind \notin {"ctx", "reqerr"})
        => /\ lresult.kind = "ok"
           /\ lresult.err = Nil
           /\ lresult.entries = Some([j \in 1..store.len |-> j])

C19_Witness ==
    /\ LDone
    /\ store = [kind |-> "dir", len |-> 4]
    /\ limit = 2
    /\ maxListPages = 3
    /\ Len(pages) = 3
    /\ lresult.kind = "ok"
    /\ lresult.entries = Some(<<1, 2, 3, 4>>)

\* C20: once the context is cancelled no page request is issued; the check at
\* the top of the loop then returns ctx.Err(); and every failure of List, the
\* cancellation included, is returned without entries, also when pages had
\* already been fetched.
C20_CancelStopsPaging ==
    [][/\ lctx # "none" => Len(pages') = Len(pages)
       /\ (lctx # "none" /\ lpc = "check" /\ lpc' # lpc) =>
             /\ lpc' = "done"
             /\ lresult'.kind = "ctx"
             /\ lresult'.err = <<CtxErr(lctx)>>
       /\ (lpc' = "done" /\ lresult'.kind # "ok") =>
             /\ lresult'.err # Nil
             /\ lresult'.entries = None
       /\ (lpc' = "done" /\ lctx # "none" /\ lpc # "inflight") => IsCtxErr(lresult'.err)
      ]_vars

C20_Witness ==
    /\ LDone
    /\ lresult.kind = "ctx"
    /\ Len(all) > 0
    /\ Len(pages) = 2
    /\ lresult.entries = None


----------------------------------------------------------------------------
(* Further properties of UploadLarge *)

\* C26: the offset stays within 0..size and changes only in a step in which a
\* chunk upload is accepted, then by exactly the length of that chunk.
C26_OffsetMonotone ==
    [][/\ 0 <= uploaded' /\ uploaded' <= Max(size, 0)
       /\ uploaded' # uploaded =>
            /\ uploaded' = uploaded + n
            /\ n > 0
            /\ Len(reqs) > 0
            /\ reqs[Len(reqs)].res = "pending"
            /\ reqs'[Len(reqs)].res = "ok"
            /\ reqs'[Len(reqs)].hi - reqs'[Len(reqs)].lo = n
      ]_vars

\* C27: a successful UploadLarge has had every byte it read from the source
\* accepted by the store in at least one upload request.
C27_SuccessMeansAccepted ==
    (Done /\ result.kind = "ok") =>
        \A b \in 0..(rpos - 1) :
            \E k \in 1..Len(reqs) :
                reqs[k].res = "ok" /\ reqs[k].lo <= b /\ b < reqs[k].hi

SrcBytes(lo, hi) == [j \in 1..(hi - lo) |-> lo + j - 1]

\* the content after the store has carried out request r on content c: a
\* write at the offset, an append, or the replacement of the file
Store(c, r) ==
    LET b == SrcBytes(r.lo, r.hi)
    IN IF r.off # None
       THEN LET o == CHOOSE x \in r.off : TRUE
            IN [j \in 1..Max(Len(c), o + Len(b)) |->
                   IF j > o /\ j <= o + Len(b) THEN b[j - o] ELSE c[j]]
       ELSE IF r.app THEN c \o b
       ELSE b

RECURSIVE RemoteAfter(_, _)
RemoteAfter(log, k) ==
    IF k = 0 THEN <<>>
    ELSE IF log[k].applied THEN Store(RemoteAfter(log, k - 1), log[k])
    ELSE RemoteAfter(log, k - 1)

\* C28: after a successful UploadLarge over a complete source (retry limit not
\* negative) the remote content is the first size bytes of the source, also
\* when writes were applied by the store whose responses were lost.
C28_RetryIdempotent ==
    (Done /\ result.kind = "ok" /\ MaxRetry >= 0 /\ src.len >= size) =>
        RemoteAfter(reqs, Len(reqs)) = SrcBytes(0, size)

\* C29: a chunk that exhausts its retry budget has slept exactly MaxRetry times
\* (never after the last attempt), and a call whose last chunk has failed all
\* of its MaxRetry + 1 attempts does not return the context's error.
C29_SleepsBetweenAttempts ==
    /\ (Done /\ result.kind = "exhausted") => sleeps = MaxRetry
    /\ (Done /\ MaxRetry >= 0 /\ Cardinality(ReqsOf(bufLo)) = MaxRetry + 1
             /\ reqs[Len(reqs)].res = "fail" /\ ShouldRetryUpload(lastErr)
             /\ ctxAt \in {"none", "sleep"})
          => result.kind = "exhausted"

\* C30: the delay computed after a failed attempt (before jitter) is greater
\* than the one computed after the attempt before it, for every attempt
\* that is followed by another one.
C30_DelaysIncrease ==
    (pc = "sleep" /\ attempt >= 1 /\ attempt < MaxRetry) =>
        BackoffDelay(policy, attempt) > BackoffDelay(policy, attempt - 1)

----------------------------------------------------------------------------
(* Properties of the constructor *)

\* C24: whatever options were applied, the policy of the constructed service
\* has uploadMaxRetry >= 0, backoffBase > 0, backoffMax >= backoffBase,
\* maxDownloadChunks >= 1 and maxListPages >= 1.
C24_PolicyValid ==
    /\ sPolicy.UploadMaxRetry >= 0
    /\ sPolicy.BackoffBase > 0
    /\ sPolicy.BackoffMax >= sPolicy.BackoffBase
    /\ sPolicy.MaxDownloadChunks >= 1
    /\ sPolicy.MaxListPages >= 1

----------------------------------------------------------------------------
(* Properties of DeleteBatch *)

\* the outcome of the Delete of path q
Outcome(q) == CHOOSE e \in bunit[q].err : TRUE

\* C25: with ignoreErrors = false DeleteBatch returns only when the Delete of
\* every path has finished and its goroutine is gone, and the mapping it
\* returns has exactly one entry per path, holding that path's own outcome.
C25_BatchComplete ==
    (bpc = "done" /\ ~batch.ignoreErrors) =>
        /\ \A q \in 1..batch.paths : bunit[q].pc = "done" /\ bunit[q].err # None
        /\ bresult = Some([q \in 1..batch.paths |-> Outcome(q)])

C25_Witness ==
    /\ bpc = "done"
    /\ ~batch.ignoreErrors
    /\ batch.concurrency >= 2
    /\ batch.paths > batch.concurrency
    /\ \E q \in 1..batch.paths : bunit[q].err = Some(Nil)
    /\ \E q \in 2..batch.paths : bunit[q - 1].err = Some(DeleteFailed(q - 1))
                                 /\ bunit[q].err = Some(Nil)

----------------------------------------------------------------------------
(* Properties of GetDirUsage *)

GDone == gpc = "done"

Add(u, v) ==
    [FileCount |-> u.FileCount + v.FileCount,
     DirCount |-> u.DirCount + v.DirCount,
     TotalSize |-> u.TotalSize + v.TotalSize]

\* the counts of the subtree below dir, from the store's entries: files with
\* their sizes, directories without
RECURSIVE Subtree(_, _, _)
RECURSIVE SumEntries(_, _, _, _)
SumEntries(t, dir, k, fuel) ==
    IF k = 0 THEN ZeroUsage
    ELSE LET e == Entries(t, dir)[k]
             rest == SumEntries(t, dir, k - 1, fuel)
         IN IF e.IsDir
            THEN Add(Add(rest, [FileCount |-> 0, DirCount |-> 1, TotalSize |-> 0]),
                     Subtree(t, PathJoin(dir, e.Name), fuel - 1))
            ELSE Add(rest, [FileCount |-> 1, DirCount |-> 0, TotalSize |-> e.Size])

Subtree(t, dir, fuel) ==
    IF fuel = 0 THEN ZeroUsage
    ELSE SumEntries(t, dir, Len(Entries(t, dir)), fuel)

Expected == Subtree(tree, <<>>, tree.depth + 2)

\* the store is a finite tree and answers every listing
WellBehaved == tree.loop = "none" /\ ~tree.faulty

\* the directory of the chain at level l
Chain(l) == [j \in 1..l |-> "c"]

\* every directory is listed in fewer than maxListPages full pages
BelowCeiling ==
    \A l \in 0..tree.depth :
        Len(Entries(tree, Chain(l))) < tree.maxListPages * DirLimit

\* C21 as stated: over every finite tree of a well-behaved store, with no
\* cancellation, GetDirUsage returns the counts of the subtree.
C21_EveryFiniteTree ==
    (GDone /\ WellBehaved /\ gctx = "none") =>
        gresult.kind = "ok" /\ gresult.usage = Expected

\* C21: over a finite tree GetDirUsage, when it succeeds, returns fileCount =
\* the files of the subtree, dirCount = its directories without the root,
\* totalSize = the sizes of the files only; and it succeeds when the store is
\* well-behaved, the context is not cancelled and every directory stays
\* below the page ceiling.
C21_UsageCounts ==
    /\ (GDone /\ gresult.kind = "ok" /\ tree.loop = "none") =>
            gresult.usage = Expected
    /\ (GDone /\ WellBehaved /\ gctx = "none" /\ BelowCeiling) =>
            gresult.kind = "ok"

C21_Witness ==
    /\ GDone /\ WellBehaved /\ BelowCeiling
    /\ gresult.kind = "ok"
    /\ tree.depth = MaxDepth /\ tree.files = MaxFiles /\ tree.extra = 1
    /\ gresult.usage.TotalSize > 0

\* C22: a failure at any depth ends the walk: nothing is listed once an error
\* is on its way up, a failed listing puts its error on the way, and
\* GetDirUsage returns that error with the all-zero DirUsage.
C22_FailureAborts ==
    [][/\ gerr # Nil => (listed' = listed /\ gerr' = gerr)
       /\ (Len(listed') > Len(listed) /\ listed'[Len(listed')].res # "ok")
             => (gerr' # Nil /\ gpc' = "unwind")
       /\ (gpc' = "done" /\ gerr # Nil)
             => (gresult'.kind = "fail" /\ gresult'.usage = ZeroUsage
                                         /\ gresult'.err = gerr)
      ]_vars

C22_Witness ==
    /\ GDone
    /\ gresult.kind = "fail"
    /\ usage.FileCount > 0 /\ usage.DirCount > 0
    /\ Len(gstack) = 0
    /\ Len(listed) >= 3
    /\ listed[Len(listed)].res = "stall"
    /\ Len(listed[Len(listed)].dir) = MaxDepth

\* C23: the walk bottoms out: it never enters a directory that it is still
\* walking, and the calls in progress never reach the cap of the model.
C23_WalkBottomsOut ==
    /\ \A i, j \in 1..Len(gstack) : i < j => gstack[i].dir # gstack[j].dir
    /\ Len(gstack) < MaxStack

----------------------------------------------------------------------------
(* Properties of the last group of claims *)

\* the bytes of the requests of log that the store accepted
RECURSIVE AcceptedBytes(_)
AcceptedBytes(log) ==
    IF log = <<>> THEN 0
    ELSE AcceptedBytes(SubSeq(log, 1, Len(log) - 1))
         + (IF log[Len(log)].res = "ok" THEN log[Len(log)].hi - log[Len(log)].lo ELSE 0)

Finished == {j \in DOMAIN unit : unit[j].pc \in {"done", "skipped"}}

\* the outcomes sent on errs for range j
Reports(j) == {k \in 1..Len(errs) : errs[k].File = Part(j)}

\* C32: in the concurrent path every unit that is over has sent exactly one
\* outcome and no other has, so the channel of chunkCount places never makes a
\* sender wait; the mutex is held only by a unit inside the progress call;
\* DownloadConcurrent returns only when every unit is over, with one outcome
\* per range index; a range skipped by the launch loop has the cancellation
\* failure as its outcome, no request and no part file.
C32_WaitsForAll ==
    Concurrent =>
        /\ \A j \in DOMAIN unit :
              Cardinality(Reports(j)) = (IF j \in Finished THEN 1 ELSE 0)
        /\ Len(errs) = Cardinality(Finished)
        /\ \A h \in mu : unit[h].pc = "incall"
        /\ DDone => Finished = DOMAIN unit /\ Len(errs) = chunkCount
        /\ \A j \in DOMAIN unit :
              unit[j].pc = "skipped" =>
                 /\ dctx # "none"
                 /\ \A k \in Reports(j) : errs[k].Err = <<CtxErr(dctx)>>
                 /\ Part(j) \notin DOMAIN files
                 /\ \A k \in 1..Len(dreqs) :
                       dreqs[k].start # RangeStart(j, chunkCount, remoteSize)

C32_Witness ==
    /\ DDone /\ Concurrent
    /\ unit[0].pc = "done" /\ unit[0].cause = "none"
    /\ unit[1].pc = "skipped"
    /\ errs[1].File = Part(1)
    /\ Part(0) \in DOMAIN files

\* the units the launch loop has started
Launched == {j \in DOMAIN unit : unit[j].pc = "start"}

\* C33 as stated: range i starts at floor(i*S/N) and, when it is not the last,
\* ends at floor((i+1)*S/N) - 1; the last ends at S-1.
C33_FloorRanges ==
    \A j \in Launched :
        /\ unit[j].start = (j * remoteSize) \div chunkCount
        /\ unit[j].end = IF j < chunkCount - 1
                         THEN ((j + 1) * remoteSize) \div chunkCount - 1
                         ELSE remoteSize - 1

\* C33 (amended): with c = floor(S/N), range i starts at i*c and, when it is
\* not the last, ends at (i+1)*c - 1; the last ends at S-1 and so takes the
\* whole remainder of the division.
C33_RangeBounds ==
    LET c == remoteSize \div chunkCount
    IN \A j \in Launched :
          /\ unit[j].start = j * c
          /\ unit[j].end = IF j < chunkCount - 1 THEN (j + 1) * c - 1
                           ELSE remoteSize - 1

C33_Witness ==
    /\ dpc = "wait"
    /\ chunkCount = 3
    /\ remoteSize % chunkCount = 2
    /\ Launched = DOMAIN unit
    /\ unit[2].start # (2 * remoteSize) \div chunkCount

\* C34: every invocation of progress during a DownloadConcurrent call, on
\* either path, passes 0 <= done <= total and total = the size of the source.
C34_ProgressInRange ==
    \A k \in 1..Len(calls) :
        /\ 0 <= calls[k].done
        /\ calls[k].done <= calls[k].total
        /\ calls[k].total = remoteSize

\* C35: in the concurrent path the destination path is never written; a step
\* that writes a file creates the part file of one range whose request was
\* accepted, writes it for the first time and leaves the other files alone;
\* the keys of the returned mapping are the N part files, the destination
\* path not among them.
C35_OnlyPartFiles ==
    [][(unit' # <<>>) =>
         /\ DstPath \notin DOMAIN files'
         /\ files' # files =>
               \E j \in DOMAIN unit :
                  /\ unit[j].pc = "got"
                  /\ RangeAccepts(unit[j].status)
                  /\ Part(j) \notin DOMAIN files
                  /\ DOMAIN files' = DOMAIN files \cup {Part(j)}
                  /\ \A f \in DOMAIN files : files'[f] = files[f]
         /\ dpc' = "done" =>
               LET m == CHOOSE x \in dresult' : TRUE
               IN /\ DstPath \notin DOMAIN m
                  /\ DOMAIN m = {Part(j) : j \in DOMAIN unit'}
                  /\ Cardinality(DOMAIN m) = chunkCount'
      ]_vars

C35_Witness ==
    /\ DDone /\ Concurrent
    /\ Cardinality(DOMAIN files) = chunkCount
    /\ \A j \in DOMAIN unit : Part(j) \in DOMAIN files /\ Mapping[Part(j)] = Nil

\* a List call against a directory that ended without a cancellation and
\* without a request failure
DirListed ==
    /\ LDone
    /\ store.kind = "dir"
    /\ lresult.kind \notin {"ctx", "reqerr"}

\* C37: for a directory of exactly m full pages, 1 <= m < MaxListPages, the
\* m-th page is full and reports has-more, List issues exactly one further
\* page request, which returns no entries, and then succeeds with the
\* directory's entries, each once and in store order.
C37_ExactMultiple ==
    \A m \in 1..MaxDir :
        (store.kind = "dir" /\ store.len = m * limit /\ m < maxListPages)
            => /\ Len(pages) <= m + 1
               /\ DirListed =>
                     /\ Len(pages) = m + 1
                     /\ pages[m].count = limit
                     /\ pages[m].hasMore
                     /\ pages[m + 1].count = 0
                     /\ ~pages[m + 1].hasMore
                     /\ lresult.kind = "ok"
                     /\ lresult.err = Nil
                     /\ lresult.entries = Some([j \in 1..store.len |-> j])

C37_Witness ==
    /\ DirListed
    /\ store.len = 4
    /\ limit = 2
    /\ maxListPages = 3
    /\ Len(pages) = 3
    /\ pages[2].hasMore
    /\ pages[3].count = 0
    /\ lresult.kind = "ok"
    /\ lresult.entries = Some(<<1, 2, 3, 4>>)

\* C38 as stated: a directory whose entries fit in MaxListPages pages is
\* listed in full.
C38_FitsMeansListed ==
    (DirListed /\ Ceil(store.len, limit) <= maxListPages)
        => /\ lresult.kind = "ok"
           /\ lresult.entries = Some([j \in 1..store.len |-> j])

\* the page requests a directory takes: its full pages and the page, short
\* or empty, that ends the listing
PagesNeeded == (store.len \div limit) + 1

\* C38 (amended): a directory is listed in full exactly when its full pages
\* and the short or empty page that ends the listing number at most
\* MaxListPages; a directory with MaxListPages or more full pages fails with
\* the max-pages failure after exactly MaxListPages page requests.
C38_CeilingCountsLastPage ==
    DirListed =>
        IF PagesNeeded <= maxListPages
        THEN /\ lresult.kind = "ok"
             /\ lresult.err = Nil
             /\ lresult.entries = Some([j \in 1..store.len |-> j])
             /\ Len(pages) = PagesNeeded
        ELSE /\ lresult.kind = "maxpages"
             /\ lresult.err # Nil
             /\ lresult.entries = None
             /\ Len(pages) = maxListPages

C38_Witness ==
    /\ DirListed
    /\ store.len = 4
    /\ limit = 2
    /\ maxListPages = 2
    /\ Len(pages) = 2
    /\ Len(all) = 4
    /\ lresult.kind = "maxpages"


\* directory a is directory b or lies above it
IsPrefix(a, b) == Len(a) <= Len(b) /\ SubSeq(b, 1, Len(a)) = a

\* two walkDirUsage calls are in progress on directories neither of which
\* lies within the other
SiblingWalks ==
    \E i, j \in 1..Len(gstack) :
        /\ ~IsPrefix(gstack[i].dir, gstack[j].dir)
        /\ ~IsPrefix(gstack[j].dir, gstack[i].dir)

\* the calls in progress form one chain, each the caller of the next
WalksNested == ~SiblingWalks

\* C39 as stated: for a finite tree of a well-behaved store whose root holds
\* two subdirectories, a GetDirUsage call that is not cancelled reaches a
\* state in which the walks of two different subdirectories are in progress
\* at the same time.
C39_BranchesOverlap ==
    (WellBehaved /\ BelowCeiling /\ tree.depth >= 1 /\ tree.extra = 1
        /\ [](gctx = "none"))
        => <>SiblingWalks


\* the part files of the call, in the given order, one after the other: the
\* first k of them, as they were at the call
RECURSIVE Concat(_)
Concat(k) ==
    IF k = 0 THEN <<>>
    ELSE Concat(k - 1) \o Data(merge.fs.part[merge.parts[k]])

\* C36: when MergeFiles returns nil the output holds the part files one after
\* the other in the given order; a step changes a part file only by deleting
\* it, only when cleanup is true and only once the output holds every part;
\* when MergeFiles returns an error every part file is as it was.
C36_MergeConcatenates ==
    [][/\ (mpc' = "done" /\ mresult' = Some(Nil)) =>
             mfs'.out = Some(Concat(Len(merge.parts)))
       /\ \A k \in 1..MaxParts :
             mfs'.part[k] # mfs.part[k] =>
                /\ mfs'.part[k] = None
                /\ merge.cleanup
                /\ \A j \in 1..Len(merge.parts) : merge.fs.part[merge.parts[j]] # None
                /\ mfs.out = Some(Concat(Len(merge.parts)))
       /\ (mpc' = "done" /\ mresult' # Some(Nil)) => mfs'.part = merge.fs.part
      ]_vars

C36_Witness ==
    /\ mpc = "done"
    /\ mresult = Some(Nil)
    /\ merge.cleanup
    /\ merge.parts = <<2, 1>>
    /\ merge.fs.part[1] = Some(Content(1, MaxPartLen))
    /\ merge.fs.part[2] = Some(Content(2, MaxPartLen))
    /\ mfs.part[1] = None /\ mfs.part[2] = None
    /\ mfs.out = Some(Content(2, MaxPartLen) \o Content(1, MaxPartLen))


\* C40 as stated: when StatBatch returns without an error, the returned map
\* has an entry for every requested path.
C40_EveryPathHasEntry ==
    (sret.done /\ sret.err = Nil) =>
        /\ sret.map # None
        /\ DOMAIN Data(sret.map) = 1..statIn.paths


====
